---------------------------- MODULE Spec2Model ----------------------------
(***************************************************************************)
(* A model of src/src/index.ts: the USPTO bulk data pipeline.              *)
(*                                                                         *)
(*   fetchUsptoZipFileInfos            listing discovery                   *)
(*   synchronizeUsptoZipFiles          archive cache synchronisation       *)
(*   processCachedUsptoZipFiles        archive extraction                  *)
(*   processUsptoXmlFile               document parser                     *)
(*   processCachedUsptoXmlData         record cache writer                 *)
(*   synchronizeProcessedDataToMongoDB store synchronisation               *)
(*   synchronize                       the orchestrator                    *)
(*                                                                         *)
(* The state is the file system, the remote site, the store, the log of    *)
(* the operations performed on them, and the position and locals of the    *)
(* one call that is running (the program is single-threaded: every await   *)
(* is completed before the next statement runs).                           *)
(***************************************************************************)
EXTENDS Integers, Sequences, FiniteSets, TLC

VARIABLES
    dirs,        \* file system: the set of paths that are directories
    files,       \* file system: function from the paths of files to contents
    web,         \* remote site: year -> listing page (sequence of hrefs)
    remote,      \* remote site: archive name -> payload served for it
    currentYear, \* new Date().getFullYear()
    store,       \* the MongoDB collection: sequence of saved documents
    connections, \* number of open MongoDB connections
    trace,       \* log of the operations performed on the outside world
    top,         \* the exported function the caller invoked
    pc,          \* position of the running call ("idle" between calls)
    outcome,     \* how the last call ended: "none", "returned", "threw"
    result,      \* the value the last call returned
    calls,       \* number of calls made so far
    args,        \* arguments of the function that is running
    year,                        \* fetchUsptoZipFileInfos: loop variable
    usptoYearResponsePromises,   \* fetchUsptoZipFileInfos: responses so far
    usptoZipFileInfos,           \* the references handed to stage two
    cachedZipFilePaths,          \* directory listing taken by the zip stages
    usptoXmlFilePaths,           \* processCachedUsptoXmlData: listing
    synchronizedFileNames,       \* synchronizeProcessedDataToMongoDB: ledger
    processedJsonCachedFiles,    \* synchronizeProcessedDataToMongoDB: to push
    schemaDataArray,             \* records of the file being pushed
    idx,                         \* index of the running for-of loop
    recIdx                       \* index of the inner record loop

fsVars    == <<dirs, files>>
envVars   == <<web, remote, currentYear>>
dbVars    == <<store, connections>>
callVars  == <<top, pc, outcome, result, calls, args>>
fetchVars == <<year, usptoYearResponsePromises>>
listVars  == <<cachedZipFilePaths, usptoXmlFilePaths>>
mongoVars == <<synchronizedFileNames, processedJsonCachedFiles,
               schemaDataArray, recIdx>>
vars == <<dirs, files, web, remote, currentYear, store, connections, trace,
          top, pc, outcome, result, calls, args, year,
          usptoYearResponsePromises, usptoZipFileInfos, cachedZipFilePaths,
          usptoXmlFilePaths, synchronizedFileNames, processedJsonCachedFiles,
          schemaDataArray, idx, recIdx>>

---------------------------------------------------------------------------
(* Bounds of the model.                                                    *)

\* number of year pages the remote site has, counted from StartYearDefault
MaxYears == 2
\* largest number of links on one listing page
MaxLinks == 2
\* largest fileLimit tried
MaxFileLimit == 3
\* largest number of calls made one after the other
MaxCalls == 2

---------------------------------------------------------------------------
(* Sequences.                                                              *)

Range(s) == {s[i] : i \in 1..Len(s)}

Take(s, n) == SubSeq(s, 1, IF n < Len(s) THEN n ELSE Len(s))

RECURSIVE Concat(_)
Concat(ss) == IF ss = <<>> THEN <<>> ELSE Head(ss) \o Concat(Tail(ss))

RECURSIVE SeqsUpTo(_, _)
SeqsUpTo(S, n) ==
    IF n = 0 THEN {<<>>}
    ELSE LET shorter == SeqsUpTo(S, n - 1)
         IN  shorter \cup {Append(s, x) : s \in {t \in shorter : Len(t) = n - 1}, x \in S}

\* the orders in which a directory listing may enumerate a set of names
Orderings(S) ==
    {s \in SeqsUpTo(S, Cardinality(S)) : Len(s) = Cardinality(S) /\ Range(s) = S}

Event(op, arg, ok) == [op |-> op, arg |-> arg, ok |-> ok]

Ops(op) == SelectSeq(trace, LAMBDA e : e.op = op)

\* the log entry of a call of fn: it keeps the files and directories the
\* call found
CallEvent(fn) ==
    Event("call", [fn |-> fn, files |-> files, dirs |-> dirs], TRUE)

---------------------------------------------------------------------------
(* Strings.  A string is a sequence of tokens: single characters where the *)
(* code looks at characters (the link pattern), longer pieces elsewhere;   *)
(* the separators "/", "." and the double quote are always tokens of their *)
(* own.                                                                    *)

Quote == "\""

LetterChars ==
    {"a","b","c","d","e","f","g","h","i","j","k","l","m","n","o","p","q","r",
     "s","t","u","v","w","x","y","z","A","B","C","D","E","F","G","H","I","J",
     "K","L","M","N","O","P","Q","R","S","T","U","V","W","X","Y","Z"}

DigitChars == {"0","1","2","3","4","5","6","7","8","9"}

\* String.prototype.split(sep): the pieces between the occurrences of sep
RECURSIVE SplitFrom(_, _, _)
SplitFrom(s, sep, piece) ==
    IF s = <<>> THEN <<piece>>
    ELSE IF Head(s) = sep THEN <<piece>> \o SplitFrom(Tail(s), sep, <<>>)
    ELSE SplitFrom(Tail(s), sep, Append(piece, Head(s)))

Split(s, sep) == SplitFrom(s, sep, <<>>)

\* length of the longest prefix of s made of tokens of class
RECURSIVE RunLength(_, _)
RunLength(s, class) ==
    IF s = <<>> \/ Head(s) \notin class THEN 0
    ELSE 1 + RunLength(Tail(s), class)

Drop(s, n) == SubSeq(s, n + 1, Len(s))

---------------------------------------------------------------------------
(* fetchUsptoZipFileInfos.                                                 *)

StartYearDefault == 2005
FileLimitDefault == 1
\* quantifiers of the link pattern: [a-zA-Z]{1,5}[0-9]{1,11}
MaxLetters == 5
MaxDigits == 11

Years == StartYearDefault .. (StartYearDefault + MaxYears - 1)

\* `https://bulkdata.uspto.gov/data/patent/application/redbook/fulltext/${year}/`
YearUrl(y) == [page |-> y, file |-> <<>>]

\* usptoBulkDataYearUrl + ipaZipFileName
UrlPlus(url, name) == [url EXCEPT !.file = @ \o name]

\* the markup of one anchor of a listing page, up to the end of its open tag
AnchorText(href) == <<"a", " ", "href", "=", Quote>> \o href \o <<Quote, ">">>

\* [a-zA-Z]{1,5}[0-9]{1,11}[.]zip between the quotes of the href (flag i)
HrefMatches(href) ==
    LET l    == RunLength(href, LetterChars)
        d    == RunLength(Drop(href, l), DigitChars)
        rest == Drop(href, l + d)
    IN  /\ l \in 1..MaxLetters
        /\ d \in 1..MaxDigits
        /\ Len(rest) = 4
        /\ rest[1] = "."
        /\ rest[2] \in {"z", "Z"}
        /\ rest[3] \in {"i", "I"}
        /\ rest[4] \in {"p", "P"}

\* htmlPageContents.match(linkRegularExpression): the matched texts in page
\* order; JavaScript gives null, written <<>> here, when nothing matches
LinkMatch(page) == 
    LET hits == SelectSeq(page, HrefMatches)
    IN  [i \in 1..Len(hits) |-> AnchorText(hits[i])]

MatchIsNull(m) == m = <<>>

\* linkText.split('"')[1].split('"')[0]
LinkHref(linkText) == Split(Split(linkText, Quote)[2], Quote)[1]

\* the references of one fetched page (lines 126 to 141)
PageInfos(response) ==
    LET m == LinkMatch(response.data)
    IN  [i \in 1..Len(m) |->
            [name |-> LinkHref(m[i]),
             url  |-> UrlPlus(response.url, LinkHref(m[i]))]]

\* a slice that keeps one reference too many
SliceLimitOffByOne(infos, fileLimit) == Take(infos, fileLimit + 1)

\* usptoZipFileInfos.slice(0, fileLimit), fileLimit >= 0
SliceLimit(infos, fileLimit) == Take(infos, fileLimit)

\* lines 116 to 148: what the call computes once every page is fetched
FetchResult(responses, fileLimit) ==
    IF \E i \in 1..Len(responses) : MatchIsNull(LinkMatch(responses[i].data))
    THEN [threw |-> TRUE, value |-> <<>>]
    ELSE [threw |-> FALSE,
          value |-> SliceLimit(
              Concat([i \in 1..Len(responses) |-> PageInfos(responses[i])]),
              fileLimit)]

---------------------------------------------------------------------------
(* Paths and the file system (path.join, fs.existsSync, fs.mkdirSync,      *)
(* fs.readdirSync, fs.readFileSync, fs.writeFileSync).  A path is a string *)
(* whose segments are separated by the token "/".                          *)

RECURSIVE JoinSegments(_)
JoinSegments(segs) ==
    IF segs = <<>> THEN <<>>
    ELSE IF Len(segs) = 1 THEN Head(segs)
    ELSE Head(segs) \o <<"/">> \o JoinSegments(Tail(segs))

Segments(p) == SelectSeq(Split(p, "/"), LAMBDA s : s # <<>> /\ s # <<".">>)

IsAbsolute(p) == p # <<>> /\ Head(p) = "/"

FromSegments(abs, segs) ==
    IF abs THEN <<"/">> \o JoinSegments(segs)
    ELSE IF segs = <<>> THEN <<".">>
    ELSE JoinSegments(segs)

\* path.normalize
Normalize(p) == FromSegments(IsAbsolute(p), Segments(p))

\* path.join(a, b): the non-empty arguments joined by "/" and normalized
PathJoin(a, b) ==
    IF a = <<>> THEN Normalize(b)
    ELSE IF b = <<>> THEN Normalize(a)
    ELSE Normalize(a \o <<"/">> \o b)

\* the directory a path lies in
Parent(p) ==
    LET segs == Segments(p)
    IN  FromSegments(IsAbsolute(p), SubSeq(segs, 1, Len(segs) - 1))

Basename(p) == LET segs == Segments(p) IN segs[Len(segs)]

RootDirs == {<<"/">>, <<".">>}

ExistsSync(p) == p \in dirs \/ p \in DOMAIN files

\* fs.mkdirSync(p) succeeds
CanMkdir(p) == Parent(p) \in dirs /\ ~ExistsSync(p)

\* fs.writeFileSync(p, data) succeeds
CanWrite(p) == Parent(p) \in dirs /\ p \notin dirs

\* fs.readFileSync(p) succeeds
CanRead(p) == p \in DOMAIN files

\* the names fs.readdirSync(d) returns, d a directory
Entries(d) ==
    {Basename(p) : p \in {q \in (dirs \cup DOMAIN files) \ RootDirs : Parent(q) = d}}

WriteFile(fs, p, data) == (p :> data) @@ fs

NoFiles == [p \in {} |-> <<>>]

\* __dirname, the directory of the built script
DirName == <<"/", "app">>

ZipFileCacheDirDefault  == PathJoin(DirName, <<"uspto_zip_file_cache">>)
XmlFileCacheDirDefault  == PathJoin(DirName, <<"uspto_xml_file_cache">>)
JsonFileCacheDirDefault == PathJoin(DirName, <<"uspto_json_file_cache">>)
SynchronizeFilePathDefault == PathJoin(DirName, <<"sync", ".", "json">>)

---------------------------------------------------------------------------
(* Calls.  One exported function runs at a time; `top` is the function the *)
(* caller invoked and `pc` the statement the program is at.  The stages of *)
(* synchronize are the same statements, entered with default arguments.    *)

NoArgs == [fn |-> "none"]

Stages == <<"fetchUsptoZipFileInfos", "synchronizeUsptoZipFiles",
            "processCachedUsptoZipFiles", "processCachedUsptoXmlData",
            "synchronizeProcessedDataToMongoDB">>

StageEntry(fn) ==
    CASE fn = "fetchUsptoZipFileInfos"            -> "fetch.loop"
      [] fn = "synchronizeUsptoZipFiles"          -> "zip.start"
      [] fn = "processCachedUsptoZipFiles"        -> "unzip.start"
      [] fn = "processCachedUsptoXmlData"         -> "xml.start"
      [] fn = "synchronizeProcessedDataToMongoDB" -> "mongo.start"

\* the default parameter values of each function (lines 89-91, 164, 210-211,
\* 337-338, 364-366)
DefaultArgs(fn) ==
    CASE fn = "fetchUsptoZipFileInfos" ->
            [fn |-> fn, fileLimit |-> FileLimitDefault,
             startYear |-> StartYearDefault, endYear |-> currentYear]
      [] fn = "synchronizeUsptoZipFiles" ->
            [fn |-> fn, zipFileCacheDir |-> ZipFileCacheDirDefault]
      [] fn = "processCachedUsptoZipFiles" ->
            [fn |-> fn, zipFileCacheDir |-> ZipFileCacheDirDefault,
             processedZipFileCacheDir |-> XmlFileCacheDirDefault]
      [] fn = "processCachedUsptoXmlData" ->
            [fn |-> fn, usptoXmlFileCacheDir |-> XmlFileCacheDirDefault,
             usptoJsonFileCacheDir |-> JsonFileCacheDirDefault]
      [] fn = "synchronizeProcessedDataToMongoDB" ->
            [fn |-> fn, processedJsonFileCacheDir |-> JsonFileCacheDirDefault,
             synchronizeFilePath |-> SynchronizeFilePathDefault]

StageIndex(fn) == CHOOSE i \in 1..Len(Stages) : Stages[i] = fn

\* the running function fn returns value after logging tr: to the caller,
\* or, inside synchronize (lines 450-466), to the statement that starts the
\* next stage
Return(fn, value, tr) ==
    IF top = "synchronize" /\ StageIndex(fn) < Len(Stages)
    THEN /\ pc' = StageEntry(Stages[StageIndex(fn) + 1])
         /\ args' = DefaultArgs(Stages[StageIndex(fn) + 1])
         /\ trace' = tr \o <<Event("done", fn, TRUE),
                             Event("stage", Stages[StageIndex(fn) + 1], TRUE)>>
         /\ UNCHANGED <<top, outcome, result, calls>>
    ELSE /\ pc' = "idle"
         /\ outcome' = "returned"
         /\ result' = IF top = "synchronize" THEN <<>> ELSE value
         /\ trace' = Append(tr, Event("done", fn, TRUE))
         /\ UNCHANGED <<top, calls, args>>

\* a rejection that is caught and passed over: the caller goes on as if
\* the function had returned
ThrowSwallowed(tr) ==
    Return(args.fn, <<>>, Append(tr, Event("throw", args.fn, FALSE)))

\* the running function throws after logging tr: the rejection reaches the
\* caller (in synchronize no stage is wrapped in try/catch)
Throw(tr) ==
    /\ pc' = "idle"
    /\ outcome' = "threw"
    /\ result' = <<>>
    /\ trace' = Append(tr, Event("throw", args.fn, FALSE))
    /\ UNCHANGED <<top, calls, args>>

\* the caller invokes the exported function fn with the arguments a
Call(fn, a, limit) ==
    /\ pc = "idle"
    /\ calls < limit
    /\ top' = fn
    /\ calls' = calls + 1
    /\ outcome' = "none"
    /\ result' = <<>>
    /\ args' = a

\* the operations logged since the running (or last) call began
RECURSIVE LastCallFrom(_, _)
LastCallFrom(tr, acc) ==
    IF tr = <<>> THEN acc
    ELSE IF tr[Len(tr)].op = "call" THEN acc
    ELSE LastCallFrom(SubSeq(tr, 1, Len(tr) - 1), <<tr[Len(tr)]>> \o acc)

LastCall == LastCallFrom(trace, <<>>)

\* the files as they were when the running (or last) call began
FilesAtCall == Ops("call")[Len(Ops("call"))].arg.files

LastCallOps(op) == SelectSeq(LastCall, LAMBDA e : e.op = op)

---------------------------------------------------------------------------
(* fetchUsptoZipFileInfos: the actions.                                    *)

\* fetchUsptoZipFileInfos(fileLimit, startYear, endYear) is called
CallFetchUsptoZipFileInfos ==
    \E fileLimit \in 0..MaxFileLimit, startYear \in Years, endYear \in Years :
        /\ Call("fetchUsptoZipFileInfos",
                [fn |-> "fetchUsptoZipFileInfos", fileLimit |-> fileLimit,
                 startYear |-> startYear, endYear |-> endYear], 1)
        /\ pc' = "fetch.loop"
        /\ year' = startYear
        /\ usptoYearResponsePromises' = <<>>
        /\ trace' = Append(trace, CallEvent("fetchUsptoZipFileInfos"))
        /\ UNCHANGED <<fsVars, envVars, dbVars, usptoZipFileInfos, listVars,
                       mongoVars, idx>>

\* a request that is not awaited: the loop goes on to the next year while
\* the request is in flight
FetchYearPageRequestNotAwaited ==
    /\ pc = "fetch.loop"
    /\ year <= args.endYear
    /\ year' = year + 1
    /\ trace' = Append(trace, Event("request", YearUrl(year), TRUE))
    /\ UNCHANGED <<fsVars, envVars, dbVars, callVars, usptoZipFileInfos,
                   usptoYearResponsePromises, listVars, mongoVars, idx>>

\* lines 104-107: axios.get(url) is called and awaited; the request is in
\* flight
FetchYearPageRequest ==
    /\ pc = "fetch.loop"
    /\ year <= args.endYear
    /\ pc' = "fetch.await"
    /\ trace' = Append(trace, Event("request", YearUrl(year), TRUE))
    /\ UNCHANGED <<fsVars, envVars, dbVars, top, outcome, result, calls, args,
                   fetchVars, usptoZipFileInfos, listVars, mongoVars, idx>>

\* lines 104-113, one iteration: await axios.get(url) resolves
FetchYearPage ==
    /\ pc = "fetch.await"
    /\ year \in DOMAIN web
    /\ pc' = "fetch.loop"
    /\ usptoYearResponsePromises' =
           Append(usptoYearResponsePromises,
                  [url |-> YearUrl(year), data |-> web[year]])
    /\ year' = year + 1
    /\ trace' = Append(trace, Event("listing", YearUrl(year), TRUE))
    /\ UNCHANGED <<fsVars, envVars, dbVars, top, outcome, result, calls, args,
                   usptoZipFileInfos, listVars, mongoVars, idx>>

\* a failed fetch that is swallowed: the loop goes on to the next year
FetchYearPageFailsSkipped ==
    /\ pc = "fetch.await"
    /\ pc' = "fetch.loop"
    /\ year' = year + 1
    /\ trace' = Append(trace, Event("listing", YearUrl(year), FALSE))
    /\ UNCHANGED <<fsVars, envVars, dbVars, top, outcome, result, calls, args,
                   usptoZipFileInfos,
                   usptoYearResponsePromises, listVars, mongoVars, idx>>

\* lines 104-107: await axios.get(url) rejects (network or HTTP error)
FetchYearPageFails ==
    /\ pc = "fetch.await"
    /\ Throw(Append(trace, Event("listing", YearUrl(year), FALSE)))
    /\ UNCHANGED <<fsVars, envVars, dbVars, fetchVars, usptoZipFileInfos,
                   listVars, mongoVars, idx>>

\* a loop that stops as soon as the pages fetched hold fileLimit links
ParseYearPagesEarly ==
    /\ pc = "fetch.loop"
    /\ LET r == FetchResult(usptoYearResponsePromises, args.fileLimit)
       IN  /\ year > args.endYear \/ (~r.threw /\ Len(r.value) = args.fileLimit)
           /\ IF r.threw
              THEN /\ Throw(trace)
                   /\ UNCHANGED usptoZipFileInfos
              ELSE /\ Return("fetchUsptoZipFileInfos", r.value, trace)
                   /\ usptoZipFileInfos' = r.value
    /\ UNCHANGED <<fsVars, envVars, dbVars, fetchVars, listVars, mongoVars, idx>>

\* lines 116-148: the loop is over; the links are parsed out of the pages
ParseYearPages ==
    /\ pc = "fetch.loop"
    /\ year > args.endYear
    /\ LET r == FetchResult(usptoYearResponsePromises, args.fileLimit)
       IN  IF r.threw
           THEN /\ Throw(trace)
                /\ UNCHANGED usptoZipFileInfos
           ELSE /\ Return("fetchUsptoZipFileInfos", r.value, trace)
                /\ usptoZipFileInfos' = r.value
    /\ UNCHANGED <<fsVars, envVars, dbVars, fetchVars, listVars, mongoVars, idx>>

---------------------------------------------------------------------------
(* File contents.  Every content says what kind of data it is, so that     *)
(* reading a file as something it is not fails as it does in the code: new *)
(* AdmZip(path) rejects what is no zip archive, JSON.parse what is no JSON *)
(* text.                                                                   *)

Content(kind, body) == [kind |-> kind, body |-> body]

\* a zip archive with the entries body (name, data), in archive order
ZipPayload(entries) == Content("zip", entries)

\* bytes that are neither an archive, nor JSON, nor a document batch
Garbage == Content("bytes", <<>>)

\* the text of a raw document batch: a sequence of markup tokens
XmlText(tokens) == Content("xml", tokens)

\* JSON.stringify(value): the text that JSON.parse turns back into value
JsonStringify(value) == Content("json", value)

\* JSON.stringify(text) of a value that is a string: a JSON string
\* literal, which JSON.parse turns back into the string text
JsonStringifyString(text) == Content("jsonstring", text)

\* JSON.parse(text) succeeds
JsonParses(text) == text.kind \in {"json", "jsonstring"}

\* JSON.parse(text)
JsonParse(text) == text.body

\* some order in which readdirSync lists the set of names S
SomeOrdering(S) == CHOOSE s \in Orderings(S) : TRUE

---------------------------------------------------------------------------
(* synchronizeUsptoZipFiles.                                               *)

\* largest number of references passed to synchronizeUsptoZipFiles
MaxRefs == 3

RefOf(name) == [name |-> name, url |-> UrlPlus(YearUrl(StartYearDefault), name)]

\* synchronizeUsptoZipFiles(usptoZipFileInfos, zipFileCacheDir) is called;
\* a second call repeats the first
CallSynchronizeUsptoZipFiles ==
    \E infos \in SeqsUpTo({RefOf(n) : n \in DOMAIN remote}, MaxRefs) :
        /\ calls > 0 => infos = usptoZipFileInfos
        /\ Call("synchronizeUsptoZipFiles",
                [fn |-> "synchronizeUsptoZipFiles",
                 zipFileCacheDir |-> ZipFileCacheDirDefault], MaxCalls)
        /\ pc' = "zip.start"
        /\ usptoZipFileInfos' = infos
        /\ trace' = Append(trace, CallEvent("synchronizeUsptoZipFiles"))
        /\ UNCHANGED <<fsVars, envVars, dbVars, fetchVars, listVars, mongoVars, idx>>

\* lines 168-173: the directory is created if missing and listed once
ZipListCache ==
    /\ pc = "zip.start"
    /\ LET dir == args.zipFileCacheDir
       IN  IF ~ExistsSync(dir) /\ ~CanMkdir(dir)
           THEN /\ Throw(trace)
                /\ UNCHANGED <<dirs, cachedZipFilePaths, idx>>
           ELSE IF dir \in DOMAIN files
           THEN /\ Throw(trace)
                /\ UNCHANGED <<dirs, cachedZipFilePaths, idx>>
           ELSE /\ dirs' = dirs \cup {dir}
                /\ cachedZipFilePaths' = SomeOrdering(Entries(dir))
                /\ idx' = 1
                /\ pc' = "zip.loop"
                /\ UNCHANGED <<trace, top, outcome, result, calls, args>>
    /\ UNCHANGED <<files, envVars, dbVars, fetchVars, usptoZipFileInfos,
                   usptoXmlFilePaths, mongoVars>>

\* the reference the loop of lines 178-197 is at
CurrentInfo == usptoZipFileInfos[idx]

\* a check that fetches every reference, cached or not
IsCachedNever(info) == FALSE

\* a check that looks at the directory as it is now, not at the listing
IsCachedNow(info) ==
    PathJoin(args.zipFileCacheDir, info.name) \in DOMAIN files

\* line 179: cachedZipFilePaths.includes(usptoZipFileInfo.name)
IsCached(info) == info.name \in Range(cachedZipFilePaths)

\* lines 178-179: the name is in the listing, the reference is passed over
ZipSkipCached ==
    /\ pc = "zip.loop"
    /\ idx <= Len(usptoZipFileInfos)
    /\ IsCached(CurrentInfo)
    /\ idx' = idx + 1
    /\ UNCHANGED <<fsVars, envVars, dbVars, callVars, trace, fetchVars,
                   usptoZipFileInfos, listVars, mongoVars>>

\* lines 179-192: the name is not in the listing; axios.get(url) is called
\* and awaited; the request is in flight
ZipFetchArchiveRequest ==
    /\ pc = "zip.loop"
    /\ idx <= Len(usptoZipFileInfos)
    /\ ~IsCached(CurrentInfo)
    /\ pc' = "zip.await"
    /\ trace' = Append(trace, Event("request", CurrentInfo.url, TRUE))
    /\ UNCHANGED <<fsVars, envVars, dbVars, top, outcome, result, calls, args,
                   fetchVars, usptoZipFileInfos, listVars, mongoVars, idx>>

\* a fetch whose payload is dropped: nothing is written
ZipFetchArchiveDropped ==
    /\ pc = "zip.await"
    /\ CurrentInfo.url.file \in DOMAIN remote
    /\ trace' = Append(trace, Event("archive", CurrentInfo.url, TRUE))
    /\ idx' = idx + 1
    /\ pc' = "zip.loop"
    /\ UNCHANGED <<fsVars, envVars, dbVars, top, outcome, result, calls, args,
                   fetchVars, usptoZipFileInfos, listVars, mongoVars>>

\* lines 190-195: await axios.get(url) resolves; the archive is written to
\* zipFileCacheDir/name
ZipFetchArchive ==
    /\ pc = "zip.await"
    /\ CurrentInfo.url.file \in DOMAIN remote
    /\ LET path == PathJoin(args.zipFileCacheDir, CurrentInfo.name)
           tr   == Append(trace, Event("archive", CurrentInfo.url, TRUE))
       IN  IF CanWrite(path)
           THEN /\ files' = WriteFile(files, path, remote[CurrentInfo.url.file])
                /\ trace' = Append(tr, Event("write", path, TRUE))
                /\ idx' = idx + 1
                /\ pc' = "zip.loop"
                /\ UNCHANGED <<top, outcome, result, calls, args>>
           ELSE /\ Throw(tr)
                /\ UNCHANGED <<files, idx>>
    /\ UNCHANGED <<dirs, envVars, dbVars, fetchVars, usptoZipFileInfos,
                   listVars, mongoVars>>

\* a failed fetch that is passed over: the loop goes on to the next one
ZipFetchArchiveFailsSkipped ==
    /\ pc = "zip.await"
    /\ pc' = "zip.loop"
    /\ trace' = Append(trace, Event("archive", CurrentInfo.url, FALSE))
    /\ idx' = idx + 1
    /\ UNCHANGED <<fsVars, envVars, dbVars, top, outcome, result, calls, args,
                   fetchVars,
                   usptoZipFileInfos, listVars, mongoVars>>

\* lines 190-192: await axios.get(url) rejects
ZipFetchArchiveFails ==
    /\ pc = "zip.await"
    /\ Throw(Append(trace, Event("archive", CurrentInfo.url, FALSE)))
    /\ UNCHANGED <<fsVars, envVars, dbVars, fetchVars, usptoZipFileInfos,
                   listVars, mongoVars, idx>>

\* line 198: the loop is over
ZipDone ==
    /\ pc = "zip.loop"
    /\ idx > Len(usptoZipFileInfos)
    /\ Return("synchronizeUsptoZipFiles", <<>>, trace)
    /\ UNCHANGED <<fsVars, envVars, dbVars, fetchVars, usptoZipFileInfos,
                   listVars, mongoVars, idx>>

---------------------------------------------------------------------------
(* processCachedUsptoZipFiles.                                             *)

\* usptoZipFile.extractAllTo(dir) of adm-zip, called without its overwrite
\* argument: every entry is written to dir/entry name unless a file of
\* that name is there already
RECURSIVE ExtractAllTo(_, _, _)
ExtractAllTo(fs, dir, entries) ==
    IF entries = <<>> THEN fs
    ELSE LET path == PathJoin(dir, Head(entries).name)
         IN  ExtractAllTo(
                IF path \in DOMAIN fs \/ path \in dirs THEN fs
                ELSE WriteFile(fs, path, Head(entries).data),
                dir, Tail(entries))

\* new AdmZip(path) succeeds
IsZipFile(path) == CanRead(path) /\ files[path].kind = "zip"

\* processCachedUsptoZipFiles(zipFileCacheDir, processedZipFileCacheDir) is
\* called with the default directories
CallProcessCachedUsptoZipFiles ==
    /\ Call("processCachedUsptoZipFiles",
            DefaultArgs("processCachedUsptoZipFiles"), MaxCalls)
    /\ pc' = "unzip.start"
    /\ trace' = Append(trace, CallEvent("processCachedUsptoZipFiles"))
    /\ UNCHANGED <<fsVars, envVars, dbVars, fetchVars, usptoZipFileInfos,
                   listVars, mongoVars, idx>>

\* lines 215-221: the output directory is created if missing and the zip
\* cache directory is listed
UnzipListCache ==
    /\ pc = "unzip.start"
    /\ LET out == args.processedZipFileCacheDir
           dir == args.zipFileCacheDir
       IN  IF (~ExistsSync(out) /\ ~CanMkdir(out)) \/ dir \notin dirs
           THEN /\ Throw(trace)
                /\ dirs' = IF ~ExistsSync(out) /\ CanMkdir(out)
                           THEN dirs \cup {out} ELSE dirs
                /\ UNCHANGED <<cachedZipFilePaths, idx>>
           ELSE /\ dirs' = IF ExistsSync(out) THEN dirs ELSE dirs \cup {out}
                /\ \E names \in Orderings(Entries(dir)) :
                       cachedZipFilePaths' =
                           [i \in 1..Len(names) |-> PathJoin(dir, names[i])]
                /\ idx' = 1
                /\ pc' = "unzip.loop"
                /\ UNCHANGED <<trace, top, outcome, result, calls, args>>
    /\ UNCHANGED <<files, envVars, dbVars, fetchVars, usptoZipFileInfos,
                   usptoXmlFilePaths, mongoVars>>

\* lines 225-229, one iteration: the archive is opened and extracted
UnzipArchive ==
    /\ pc = "unzip.loop"
    /\ idx <= Len(cachedZipFilePaths)
    /\ LET path == cachedZipFilePaths[idx]
       IN  IF IsZipFile(path) /\ args.processedZipFileCacheDir \in dirs
           THEN /\ files' = ExtractAllTo(files, args.processedZipFileCacheDir,
                                         files[path].body)
                /\ trace' = Append(trace, Event("extract", path, TRUE))
                /\ idx' = idx + 1
                /\ UNCHANGED callVars
           ELSE /\ Throw(Append(trace, Event("extract", path, FALSE)))
                /\ UNCHANGED <<files, idx>>
    /\ UNCHANGED <<dirs, envVars, dbVars, fetchVars, usptoZipFileInfos,
                   listVars, mongoVars>>

\* line 230: the loop is over
UnzipDone ==
    /\ pc = "unzip.loop"
    /\ idx > Len(cachedZipFilePaths)
    /\ Return("processCachedUsptoZipFiles", <<>>, trace)
    /\ UNCHANGED <<fsVars, envVars, dbVars, fetchVars, usptoZipFileInfos,
                   listVars, mongoVars, idx>>

---------------------------------------------------------------------------
(* processUsptoXmlFile.  The text of a batch is a sequence of tokens: the  *)
(* open tag of a us-patent-application element (with what xml2js reads in  *)
(* the element), its close tag, and the line breaks between documents.  A  *)
(* value that may be undefined is a sequence of at most one element.       *)

Undefined == <<>>
Some(v) == <<v>>

NoDoc == <<>>
OpenTag(doc) == [t |-> "open", doc |-> Some(doc)]
CloseTag == [t |-> "close", doc |-> NoDoc]
LineBreak == [t |-> "text", doc |-> NoDoc]

\* the first index >= from of a token of kind t, or 0
RECURSIVE FirstIndex(_, _, _)
FirstIndex(tokens, t, from) ==
    IF from > Len(tokens) THEN 0
    ELSE IF tokens[from].t = t THEN from
    ELSE FirstIndex(tokens, t, from + 1)

\* xmlData.match(/<us-patent-application\s.*?<\/us-patent-application>/gmis)
\* from the token `from` on: each match runs from an open tag to the first
\* close tag after it; null, written <<>>, when nothing matches
RECURSIVE PatentXmlSections(_, _)
PatentXmlSections(tokens, from) ==
    LET i == FirstIndex(tokens, "open", from)
        j == IF i = 0 THEN 0 ELSE FirstIndex(tokens, "close", i + 1)
    IN  IF i = 0 \/ j = 0 THEN <<>>
        ELSE <<SubSeq(tokens, i, j)>> \o PatentXmlSections(tokens, j + 1)

\* xmlParser.parseStringPromise(section) resolves: the section is one
\* element, no second open tag is left unclosed inside it
SectionParses(section) ==
    \A k \in 2..Len(section) : section[k].t # "open"

\* lines 259-312 throw a TypeError: a property of undefined is read
ProjectionThrows(doc) ==
    \/ doc.attrs = Undefined
    \/ doc.abstract = Undefined
    \/ doc.claims = Undefined
    \/ (doc.claims # Undefined /\
        \E i \in 1..Len(doc.claims[1]) : doc.claims[1][i] = Undefined)
    \/ doc.headings = Undefined
    \/ doc.title = Undefined
    \/ (doc.title # Undefined /\ doc.title[1].attrs = Undefined)
    \/ doc.docNumber = Undefined

\* lines 259-312: the UsptoPatentData of a parsed document
ProcessedPatentData(doc) ==
    [language       |-> doc.attrs[1].lang,
     country        |-> doc.attrs[1].country,
     dateProduced   |-> doc.attrs[1].dateProduced,
     datePublished  |-> doc.attrs[1].datePubl,
     dtdVersion     |-> doc.attrs[1].dtdVersion,
     xmlFile        |-> doc.attrs[1].file,
     patentStatus   |-> doc.attrs[1].status,
     patentAbstract |-> doc.abstract[1],
     patentClaims   |->
         [i \in 1..Len(doc.claims[1]) |->
             [genericClaim     |-> doc.claims[1][i][1].text,
              individualClaims |-> doc.claims[1][i][1].claimText]],
     patentHeadings |-> doc.headings[1],
     inventionTitle |-> doc.title[1].text,
     inventionId    |-> doc.title[1].attrs[1].id,
     documentNumber |-> doc.docNumber]

\* lines 315-320: the UsptoPatentSchemaData, nested fields as JSON text
ProcessedPatentSchemaData(data) ==
    [data EXCEPT !.patentAbstract = JsonStringify(@),
                 !.patentClaims   = JsonStringify(@),
                 !.patentHeadings = JsonStringify(@)]

\* a loop that pushes each record at the front of the array
RECURSIVE SchemaDataOfSectionsReversed(_)
SchemaDataOfSectionsReversed(sections) ==
    IF sections = <<>> THEN <<>>
    ELSE SchemaDataOfSectionsReversed(Tail(sections)) \o
         <<ProcessedPatentSchemaData(ProcessedPatentData(Head(sections)[1].doc[1]))>>

\* lines 254-323: the records of the sections, pushed in section order
SchemaDataOfSections(sections) ==
    [i \in 1..Len(sections) |->
        ProcessedPatentSchemaData(ProcessedPatentData(sections[i][1].doc[1]))]

\* processUsptoXmlFile(path): whether it throws, and the array it returns
ProcessUsptoXmlFile(path) ==
    IF ~CanRead(path) THEN [threw |-> TRUE, value |-> <<>>]
    ELSE LET sections == IF files[path].kind = "xml"
                         THEN PatentXmlSections(files[path].body, 1)
                         ELSE <<>>
         IN  IF \/ sections = <<>>
                \/ \E i \in 1..Len(sections) :
                       \/ ~SectionParses(sections[i])
                       \/ ProjectionThrows(sections[i][1].doc[1])
             THEN [threw |-> TRUE, value |-> <<>>]
             ELSE [threw |-> FALSE, value |-> SchemaDataOfSections(sections)]

---------------------------------------------------------------------------
(* processCachedUsptoXmlData.                                              *)

\* line 345: path.join(usptoJsonFileCacheDir,
\*                     usptoXmlFilePath.split(".")[0] + '.json')
JsonSchemaDataFilePath(jsonDir, xmlFilePath) ==
    PathJoin(jsonDir, Split(xmlFilePath, ".")[1] \o <<".", "json">>)

\* processCachedUsptoXmlData(usptoXmlFileCacheDir, usptoJsonFileCacheDir)
\* is called; a second call repeats the first
CallProcessCachedUsptoXmlData ==
    \E xmlDir \in {XmlFileCacheDirDefault, <<".">>},
       jsonDir \in {JsonFileCacheDirDefault} :
        /\ calls > 0 => xmlDir = args.usptoXmlFileCacheDir
        /\ Call("processCachedUsptoXmlData",
                [fn |-> "processCachedUsptoXmlData",
                 usptoXmlFileCacheDir |-> xmlDir,
                 usptoJsonFileCacheDir |-> jsonDir], MaxCalls)
        /\ pc' = "xml.start"
        /\ trace' = Append(trace, CallEvent("processCachedUsptoXmlData"))
        /\ UNCHANGED <<fsVars, envVars, dbVars, fetchVars, usptoZipFileInfos,
                       listVars, mongoVars, idx>>

\* lines 340-341: the raw directory is listed
XmlListCache ==
    /\ pc = "xml.start"
    /\ LET dir == args.usptoXmlFileCacheDir
       IN  IF dir \notin dirs
           THEN /\ Throw(trace)
                /\ UNCHANGED <<usptoXmlFilePaths, idx>>
           ELSE /\ \E names \in Orderings(Entries(dir)) :
                       usptoXmlFilePaths' =
                           [i \in 1..Len(names) |-> PathJoin(dir, names[i])]
                /\ idx' = 1
                /\ pc' = "xml.loop"
                /\ UNCHANGED <<trace, top, outcome, result, calls, args>>
    /\ UNCHANGED <<fsVars, envVars, dbVars, fetchVars, usptoZipFileInfos,
                   cachedZipFilePaths, mongoVars>>

\* lines 343-348, one iteration: the raw file is parsed and its records
\* are written to the derived path
XmlProcessFile ==
    /\ pc = "xml.loop"
    /\ idx <= Len(usptoXmlFilePaths)
    /\ LET path == usptoXmlFilePaths[idx]
           out  == JsonSchemaDataFilePath(args.usptoJsonFileCacheDir, path)
           r    == ProcessUsptoXmlFile(path)
           tr   == Append(trace, Event("parse", path, ~r.threw))
       IN  IF r.threw
           THEN /\ Throw(tr)
                /\ UNCHANGED <<files, idx>>
           ELSE IF ~CanWrite(out)
           THEN /\ Throw(Append(tr, Event("write", out, FALSE)))
                /\ UNCHANGED <<files, idx>>
           ELSE /\ files' = WriteFile(files, out, JsonStringify(r.value))
                /\ trace' = Append(tr, Event("write", out, TRUE))
                /\ idx' = idx + 1
                /\ UNCHANGED callVars
    /\ UNCHANGED <<dirs, envVars, dbVars, fetchVars, usptoZipFileInfos,
                   listVars, mongoVars>>

\* line 349: the loop is over
XmlDone ==
    /\ pc = "xml.loop"
    /\ idx > Len(usptoXmlFilePaths)
    /\ Return("processCachedUsptoXmlData", <<>>, trace)
    /\ UNCHANGED <<fsVars, envVars, dbVars, fetchVars, usptoZipFileInfos,
                   listVars, mongoVars, idx>>

---------------------------------------------------------------------------
(* synchronizeProcessedDataToMongoDB.                                      *)

\* lines 424-438: the document built from one record of a file
UsptoDataDocument(data) ==
    [language       |-> data.language,
     country        |-> data.country,
     dateProduced   |-> data.dateProduced,
     datePublished  |-> data.datePublished,
     dtdVersion     |-> data.dtdVersion,
     xmlFile        |-> data.xmlFile,
     patentStatus   |-> data.patentStatus,
     patentAbstract |-> JsonStringifyString(data.patentAbstract),
     patentClaims   |-> JsonStringifyString(data.patentClaims),
     patentHeadings |-> JsonStringifyString(data.patentHeadings),
     inventionTitle |-> data.inventionTitle,
     inventionId    |-> data.inventionId,
     documentNumber |-> data.documentNumber]

\* synchronizeProcessedDataToMongoDB(connectionString,
\* processedJsonFileCacheDir, synchronizeFilePath) is called with the
\* default directory and ledger path
CallSynchronizeProcessedDataToMongoDB ==
    /\ Call("synchronizeProcessedDataToMongoDB",
            DefaultArgs("synchronizeProcessedDataToMongoDB"), MaxCalls)
    /\ pc' = "mongo.start"
    /\ trace' = Append(trace, CallEvent("synchronizeProcessedDataToMongoDB"))
    /\ UNCHANGED <<fsVars, envVars, dbVars, fetchVars, usptoZipFileInfos,
                   listVars, mongoVars, idx>>

\* a filter that keeps every file name, in the ledger or not
UnsynchronizedAll(listing, names) == listing

\* lines 386-387: the file names of the listing that the ledger does not
\* hold, in listing order
Unsynchronized(listing, names) ==
    SelectSeq(listing, LAMBDA n : n \notin Range(names))

\* lines 377-387: the ledger is read, or created empty; the files of the
\* record directory that the ledger does not name are listed
MongoReadLedger ==
    /\ pc = "mongo.start"
    /\ LET ledger == args.synchronizeFilePath
           dir    == args.processedJsonFileCacheDir
           failsLedger ==
               IF ExistsSync(ledger)
               THEN ~CanRead(ledger) \/ ~JsonParses(files[ledger])
               ELSE ~CanWrite(ledger)
           names == IF ExistsSync(ledger) /\ ~failsLedger
                    THEN JsonParse(files[ledger]) ELSE <<>>
           fs1 == IF ~ExistsSync(ledger) /\ ~failsLedger
                  THEN WriteFile(files, ledger, JsonStringify(<<>>)) ELSE files
       IN  /\ files' = fs1
           /\ IF failsLedger \/ dir \notin dirs
              THEN /\ Throw(trace)
                   /\ UNCHANGED <<synchronizedFileNames,
                                  processedJsonCachedFiles, idx>>
              ELSE /\ synchronizedFileNames' = names
                   /\ \E listing \in Orderings(Entries(dir)) :
                          processedJsonCachedFiles' =
                              Unsynchronized(listing, names)
                   /\ idx' = 1
                   /\ pc' = "mongo.connect"
                   /\ UNCHANGED <<trace, top, outcome, result, calls, args>>
    /\ UNCHANGED <<dirs, envVars, dbVars, fetchVars, usptoZipFileInfos,
                   listVars, schemaDataArray, recIdx>>

\* line 390: await mongoose.createConnection(connectionString) resolves
MongoConnect ==
    /\ pc = "mongo.connect"
    /\ connections' = connections + 1
    /\ trace' = Append(trace, Event("connect", args.fn, TRUE))
    /\ pc' = "mongo.loop"
    /\ UNCHANGED <<fsVars, envVars, store, top, outcome, result, calls, args,
                   fetchVars, usptoZipFileInfos, listVars, mongoVars, idx>>

\* line 390: await mongoose.createConnection(connectionString) rejects
MongoConnectFails ==
    /\ pc = "mongo.connect"
    /\ Throw(Append(trace, Event("connect", args.fn, FALSE)))
    /\ UNCHANGED <<fsVars, envVars, dbVars, fetchVars, usptoZipFileInfos,
                   listVars, mongoVars, idx>>

\* lines 413-419: the next file to push is read and parsed
MongoReadFile ==
    /\ pc = "mongo.loop"
    /\ idx <= Len(processedJsonCachedFiles)
    /\ LET path == PathJoin(args.processedJsonFileCacheDir,
                            processedJsonCachedFiles[idx])
       IN  IF CanRead(path) /\ JsonParses(files[path])
           THEN /\ schemaDataArray' = JsonParse(files[path])
                /\ recIdx' = 1
                /\ pc' = "mongo.records"
                /\ trace' = Append(trace, Event("read", path, TRUE))
                /\ UNCHANGED <<top, outcome, result, calls, args>>
           ELSE /\ Throw(Append(trace, Event("read", path, FALSE)))
                /\ UNCHANGED <<schemaDataArray, recIdx>>
    /\ UNCHANGED <<fsVars, envVars, dbVars, fetchVars, usptoZipFileInfos,
                   listVars, synchronizedFileNames, processedJsonCachedFiles,
                   idx>>

\* the file and index of the record the inner loop is at
CurrentRecord ==
    [file |-> processedJsonCachedFiles[idx], index |-> recIdx]

\* lines 423-441: the document of the next record is built, usptoData.save()
\* is called and awaited; the insert is in flight
MongoSaveRequest ==
    /\ pc = "mongo.records"
    /\ recIdx <= Len(schemaDataArray)
    /\ pc' = "mongo.await"
    /\ trace' = Append(trace, Event("request", CurrentRecord, TRUE))
    /\ UNCHANGED <<fsVars, envVars, dbVars, top, outcome, result, calls, args,
                   fetchVars, usptoZipFileInfos, listVars, mongoVars, idx>>

\* a save that stores the document of the record twice
MongoSaveTwice ==
    /\ pc = "mongo.await"
    /\ pc' = "mongo.records"
    /\ store' = store \o <<UsptoDataDocument(schemaDataArray[recIdx]),
                           UsptoDataDocument(schemaDataArray[recIdx])>>
    /\ trace' = Append(trace, Event("insert", CurrentRecord, TRUE))
    /\ recIdx' = recIdx + 1
    /\ UNCHANGED <<fsVars, envVars, connections, top, outcome, result, calls,
                   args, fetchVars,
                   usptoZipFileInfos, listVars, synchronizedFileNames,
                   processedJsonCachedFiles, schemaDataArray, idx>>

\* lines 422-441, one iteration: await usptoData.save() resolves
MongoSave ==
    /\ pc = "mongo.await"
    /\ pc' = "mongo.records"
    /\ store' = Append(store, UsptoDataDocument(schemaDataArray[recIdx]))
    /\ trace' = Append(trace, Event("insert", CurrentRecord, TRUE))
    /\ recIdx' = recIdx + 1
    /\ UNCHANGED <<fsVars, envVars, connections, top, outcome, result, calls,
                   args, fetchVars,
                   usptoZipFileInfos, listVars, synchronizedFileNames,
                   processedJsonCachedFiles, schemaDataArray, idx>>

\* a failed save that is passed over: the loop goes on to the next record
MongoSaveFailsSkipped ==
    /\ pc = "mongo.await"
    /\ pc' = "mongo.records"
    /\ trace' = Append(trace, Event("insert", CurrentRecord, FALSE))
    /\ recIdx' = recIdx + 1
    /\ UNCHANGED <<fsVars, envVars, dbVars, top, outcome, result, calls, args,
                   fetchVars, usptoZipFileInfos, listVars, synchronizedFileNames,
                   processedJsonCachedFiles, schemaDataArray, idx>>

\* line 441: await usptoData.save() rejects
MongoSaveFails ==
    /\ pc = "mongo.await"
    /\ Throw(Append(trace, Event("insert", CurrentRecord, FALSE)))
    /\ UNCHANGED <<fsVars, envVars, dbVars, fetchVars, usptoZipFileInfos,
                   listVars, mongoVars, idx>>

\* lines 422-443: the records of the file are all saved; the outer loop
\* goes on to the next file
MongoFilePushed ==
    /\ pc = "mongo.records"
    /\ recIdx > Len(schemaDataArray)
    /\ idx' = idx + 1
    /\ pc' = "mongo.loop"
    /\ UNCHANGED <<fsVars, envVars, dbVars, trace, top, outcome, result, calls,
                   args, fetchVars, usptoZipFileInfos, listVars, mongoVars>>

\* line 444: the outer loop is over; the function returns
MongoDone ==
    /\ pc = "mongo.loop"
    /\ idx > Len(processedJsonCachedFiles)
    /\ Return("synchronizeProcessedDataToMongoDB", <<>>, trace)
    /\ UNCHANGED <<fsVars, envVars, dbVars, fetchVars, usptoZipFileInfos,
                   listVars, mongoVars, idx>>

---------------------------------------------------------------------------
(* synchronize.                                                            *)

\* synchronize() is called (lines 450-452, and 472-477 when the file is run
\* as a script)
CallSynchronize ==
    /\ Call("synchronize", DefaultArgs("fetchUsptoZipFileInfos"), MaxCalls)
    /\ pc' = "fetch.loop"
    /\ year' = StartYearDefault
    /\ usptoYearResponsePromises' = <<>>
    /\ trace' = trace \o <<CallEvent("synchronize"),
                           Event("stage", "fetchUsptoZipFileInfos", TRUE)>>
    /\ UNCHANGED <<fsVars, envVars, dbVars, usptoZipFileInfos, listVars,
                   mongoVars, idx>>

\* the process that runs synchronize is killed from outside
Killed(tr) ==
    /\ top = "synchronize"
    /\ pc # "idle"
    /\ pc' = "idle"
    /\ outcome' = "killed"
    /\ result' = <<>>
    /\ trace' = Append(tr, Event("kill", pc, FALSE))
    /\ connections' = 0
    /\ UNCHANGED <<dirs, envVars, store, top, calls, args, fetchVars,
                   usptoZipFileInfos, listVars, mongoVars, idx>>

\* the process is killed between two file operations
Kill ==
    /\ Killed(trace)
    /\ UNCHANGED files

\* the process is killed while line 228 writes an entry of the archive: the
\* first k tokens of the entry are in the file
KillDuringExtract ==
    /\ pc = "unzip.loop"
    /\ idx <= Len(cachedZipFilePaths)
    /\ IsZipFile(cachedZipFilePaths[idx])
    /\ args.processedZipFileCacheDir \in dirs
    /\ \E i \in 1..Len(files[cachedZipFilePaths[idx]].body) :
           LET entry == files[cachedZipFilePaths[idx]].body[i]
               path  == PathJoin(args.processedZipFileCacheDir, entry.name)
           IN  /\ path \notin DOMAIN files
               /\ path \notin dirs
               /\ \E k \in 0..(Len(entry.data.body) - 1) :
                      files' = WriteFile(files, path,
                                         XmlText(Take(entry.data.body, k)))
    /\ Killed(Append(trace, Event("extract", cachedZipFilePaths[idx], FALSE)))

\* the process is killed while line 347 writes a record file: the file is
\* there, its text cut short
KillDuringWrite ==
    /\ pc = "xml.loop"
    /\ idx <= Len(usptoXmlFilePaths)
    /\ ~ProcessUsptoXmlFile(usptoXmlFilePaths[idx]).threw
    /\ CanWrite(JsonSchemaDataFilePath(args.usptoJsonFileCacheDir,
                                       usptoXmlFilePaths[idx]))
    /\ files' = WriteFile(files,
                          JsonSchemaDataFilePath(args.usptoJsonFileCacheDir,
                                                 usptoXmlFilePaths[idx]),
                          Garbage)
    /\ Killed(Append(trace, Event("write",
                  JsonSchemaDataFilePath(args.usptoJsonFileCacheDir,
                                         usptoXmlFilePaths[idx]), FALSE)))

---------------------------------------------------------------------------
(* Initial states.                                                         *)

\* hrefs found on the listing pages: two archives and a link the pattern
\* rejects (six letters)
HrefIpa1 == <<"i", "p", "a", "1", ".", "z", "i", "p">>
HrefIpa2 == <<"I", "P", "A", "0", "2", ".", "Z", "I", "P">>
HrefLong == <<"a", "b", "c", "d", "e", "f", "1", ".", "z", "i", "p">>

Hrefs == {HrefIpa1, HrefIpa2, HrefLong}

ArchiveNames == {h \in Hrefs : HrefMatches(h)}

PageLinks(w) == Concat([i \in 1..MaxYears |-> w[StartYearDefault + i - 1]])

\* the listing pages a site of MaxYears years can hold, MaxLinks + 1 links
\* at most on the whole site
Sites ==
    {w \in [Years -> SeqsUpTo(Hrefs, MaxLinks)] : Len(PageLinks(w)) <= MaxLinks + 1}

InitCall ==
    /\ top = "none"
    /\ pc = "idle"
    /\ outcome = "none"
    /\ result = <<>>
    /\ calls = 0
    /\ args = NoArgs
    /\ year = 0
    /\ usptoYearResponsePromises = <<>>
    /\ usptoZipFileInfos = <<>>
    /\ cachedZipFilePaths = <<>>
    /\ usptoXmlFilePaths = <<>>
    /\ synchronizedFileNames = <<>>
    /\ processedJsonCachedFiles = <<>>
    /\ schemaDataArray = <<>>
    /\ idx = 0
    /\ recIdx = 0
    /\ trace = <<>>

InitDiscover ==
    /\ InitCall
    /\ dirs = RootDirs \cup {DirName}
    /\ files = NoFiles
    /\ web \in Sites
    /\ remote = NoFiles
    /\ currentYear = StartYearDefault + MaxYears - 1
    /\ store = <<>>
    /\ connections = 0

NextDiscover ==
    \/ CallFetchUsptoZipFileInfos
    \/ FetchYearPageRequest
    \/ FetchYearPage
    \/ FetchYearPageFails
    \/ ParseYearPages

SpecDiscover == InitDiscover /\ [][NextDiscover]_vars

---------------------------------------------------------------------------
(* fetchUsptoZipFileInfos: the claims.                                     *)

\* the references the pages of the years from..to hold, stated from the
\* site: the hrefs the pattern accepts, in year order and page order
RECURSIVE SiteRefs(_, _)
SiteRefs(from, to) ==
    IF from > to THEN <<>>
    ELSE LET hrefs == SelectSeq(web[from], HrefMatches)
         IN  [i \in 1..Len(hrefs) |->
                 [name |-> hrefs[i],
                  url  |-> [page |-> from, file |-> hrefs[i]]]]
             \o SiteRefs(from + 1, to)

FetchReturned ==
    top = "fetchUsptoZipFileInfos" /\ pc = "idle" /\ outcome = "returned"

\* C5: a call of fetchUsptoZipFileInfos that returns, returns at most
\* fileLimit references: the first fileLimit of the matched links of the
\* pages in ascending year order and page order, each with name = the link
\* and url = the page's URL followed by the link.
C5_FirstFileLimitRefs ==
    FetchReturned =>
        /\ Len(result) <= args.fileLimit
        /\ result = Take(SiteRefs(args.startYear, args.endYear), args.fileLimit)

\* a call over two years whose result is cut by fileLimit and holds links
\* of both years
C5_Witness ==
    /\ FetchReturned
    /\ args.fileLimit = 2
    /\ Len(SiteRefs(args.startYear, args.endYear)) > 2
    /\ Len(result) = 2
    /\ result[1].url.page < result[2].url.page

NoListingFailed == \A i \in 1..Len(LastCall) :
    LastCall[i].op = "listing" => LastCall[i].ok

\* C7: a call all of whose listing fetches succeed returns the references
\* of the pages, also when one of the pages holds no matching link.
C7_EmptyPageIsNoError ==
    (top = "fetchUsptoZipFileInfos" /\ pc = "idle" /\ calls > 0 /\ NoListingFailed)
        => /\ outcome = "returned"
           /\ result = Take(SiteRefs(args.startYear, args.endYear), args.fileLimit)

\* C8: once a listing fetch has failed the call is over: it has thrown,
\* it returns no reference, and no listing is fetched after the failed one
\* (no later year, no second attempt).
C8_FetchFailureFailsCall ==
    \A i \in 1..Len(LastCall) :
        (LastCall[i].op = "listing" /\ ~LastCall[i].ok) =>
            /\ pc = "idle"
            /\ outcome = "threw"
            /\ result = <<>>
            /\ usptoZipFileInfos = <<>>
            /\ \A j \in (i + 1)..Len(LastCall) : LastCall[j].op # "listing"

\* the fetch of the second year fails after the first year was fetched
C8_Witness ==
    /\ top = "fetchUsptoZipFileInfos"
    /\ outcome = "threw"
    /\ Len(LastCallOps("listing")) = 2
    /\ LastCallOps("listing")[1].ok
    /\ ~LastCallOps("listing")[2].ok
    /\ SiteRefs(args.startYear, args.startYear) # <<>>

---------------------------------------------------------------------------
(* processUsptoXmlFile called on its own.                                  *)

CallProcessUsptoXmlFile ==
    \E path \in DOMAIN files :
        /\ Call("processUsptoXmlFile",
                [fn |-> "processUsptoXmlFile", bulkXmlFilePath |-> path], 1)
        /\ pc' = "parse.run"
        /\ trace' = Append(trace, CallEvent("processUsptoXmlFile"))
        /\ UNCHANGED <<fsVars, envVars, dbVars, fetchVars, usptoZipFileInfos,
                       listVars, mongoVars, idx>>

\* lines 240-326: the call runs to its end
RunProcessUsptoXmlFile ==
    /\ pc = "parse.run"
    /\ LET r == ProcessUsptoXmlFile(args.bulkXmlFilePath)
       IN  /\ pc' = "idle"
           /\ outcome' = IF r.threw THEN "threw" ELSE "returned"
           /\ result' = r.value
           /\ trace' = Append(trace,
                              Event("parse", args.bulkXmlFilePath, ~r.threw))
    /\ UNCHANGED <<fsVars, envVars, dbVars, top, calls, args, fetchVars,
                   usptoZipFileInfos, listVars, mongoVars, idx>>

---------------------------------------------------------------------------
(* Sample documents, batches, archives and directories.                    *)

SampleAttrs(file) ==
    [lang |-> Some("EN"), country |-> Some("US"),
     dateProduced |-> Some("20041222"), datePubl |-> Some("20050106"),
     dtdVersion |-> Some("v4.0"), file |-> Some(file),
     status |-> Some("PRODUCTION")]

SampleDoc(number) ==
    [attrs     |-> Some(SampleAttrs(number)),
     abstract  |-> Some(<<Some("p1"), Some("p2")>>),
     claims    |-> Some(<<Some([text |-> Some("claim1"),
                                claimText |-> Some(<<"sub1", "sub2">>)]),
                          Some([text |-> Some("claim2"),
                                claimText |-> Undefined])>>),
     headings  |-> Some(<<Some("h1"), Some("h2")>>),
     title     |-> Some([text |-> Some("title"),
                         attrs |-> Some([id |-> Some("d0e61")])]),
     docNumber |-> Some(number)]

DocUS001 == SampleDoc("US001")
DocUS002 == SampleDoc("US002")
DocUS003 == SampleDoc("US003")
\* a document without an abstract element
DocNoAbstract == [SampleDoc("US004") EXCEPT !.abstract = Undefined]

\* a document whose root element has no lang attribute
DocNoLang ==
    [SampleDoc("US005") EXCEPT
        !.attrs = Some([SampleAttrs("US005") EXCEPT !.lang = Undefined])]

FileName(stem, ext) == <<stem, ".", ext>>

BatchIpa1 == XmlText(<<OpenTag(DocUS001), CloseTag, LineBreak,
                       OpenTag(DocUS002), CloseTag>>)
BatchIpa2 == XmlText(<<OpenTag(DocUS003), CloseTag>>)

\* what the remote site serves for each archive of its listing pages
RemoteArchives ==
    (HrefIpa1 :> ZipPayload(<<[name |-> FileName("ipa1", "xml"),
                               data |-> BatchIpa1]>>))
    @@ (HrefIpa2 :> ZipPayload(<<>>))

\* the records processUsptoXmlFile gives for the documents docs
RecordsOf(docs) ==
    [i \in 1..Len(docs) |-> ProcessedPatentSchemaData(ProcessedPatentData(docs[i]))]

RecordFileIpa1 == JsonStringify(RecordsOf(<<DocUS001, DocUS002>>))
RecordFileIpa2 == JsonStringify(RecordsOf(<<DocUS003>>))

\* a file system that holds the directories ds and the files fs
FileSystem(ds, fs) ==
    /\ dirs = RootDirs \cup {DirName} \cup ds
    /\ files = fs

InitWorld ==
    /\ InitCall
    /\ web = [y \in Years |-> <<>>]
    /\ remote = RemoteArchives
    /\ currentYear = StartYearDefault + MaxYears - 1
    /\ store = <<>>
    /\ connections = 0

---------------------------------------------------------------------------
(* SpecParse: processUsptoXmlFile on batches of at most MaxTokens tokens.  *)

MaxTokens == 5

BatchTokens == {OpenTag(DocUS001), OpenTag(DocUS002), OpenTag(DocNoAbstract),
                OpenTag(DocNoLang), CloseTag, LineBreak}

BatchPath == PathJoin(XmlFileCacheDirDefault, FileName("ipa1", "xml"))

InitParse ==
    /\ InitWorld
    /\ \E tokens \in SeqsUpTo(BatchTokens, MaxTokens) :
           FileSystem({XmlFileCacheDirDefault}, BatchPath :> XmlText(tokens))

NextParse ==
    \/ CallProcessUsptoXmlFile
    \/ RunProcessUsptoXmlFile

SpecParse == InitParse /\ [][NextParse]_vars

---------------------------------------------------------------------------
(* SpecZip: synchronizeUsptoZipFiles, called again with the same           *)
(* arguments.                                                              *)

ZipPathOf(name) == PathJoin(ZipFileCacheDirDefault, name)

\* the cache directory may be missing; an archive may be absent, cached as
\* the site serves it, or cached with other bytes
InitZip ==
    /\ InitWorld
    /\ \/ FileSystem({}, NoFiles)
       \/ \E cached \in [ArchiveNames -> {"absent", "same", "other"}] :
              FileSystem({ZipFileCacheDirDefault},
                  [p \in {ZipPathOf(n) : n \in {m \in ArchiveNames : cached[m] # "absent"}}
                      |-> LET n == CHOOSE m \in ArchiveNames : ZipPathOf(m) = p
                          IN  IF cached[n] = "same" THEN RemoteArchives[n]
                              ELSE Garbage])

NextZip ==
    \/ CallSynchronizeUsptoZipFiles
    \/ ZipListCache
    \/ ZipSkipCached
    \/ ZipFetchArchiveRequest
    \/ ZipFetchArchive
    \/ ZipFetchArchiveFails
    \/ ZipDone

SpecZip == InitZip /\ [][NextZip]_vars

---------------------------------------------------------------------------
(* SpecXml: processCachedUsptoXmlData, called again with the same          *)
(* arguments.                                                              *)

RawNames == {FileName("ipa1", "xml"), FileName("ipa2", "xml")}

RawBatch(name) == IF name = FileName("ipa1", "xml") THEN BatchIpa1 ELSE BatchIpa2

RawDirs == {XmlFileCacheDirDefault, <<".">>}

\* the directories the derived output paths of the raw directory d lie in
OutputDirsOf(d) ==
    IF d = <<".">> THEN {}
    ELSE {PathJoin(JsonFileCacheDirDefault, DirName),
          PathJoin(JsonFileCacheDirDefault, XmlFileCacheDirDefault)}

\* the raw directories hold the files raw; the output directory exists;
\* the directories below it and the output files exist or not
InitXml ==
    /\ InitWorld
    /\ \E raw \in SUBSET RawNames, nested \in BOOLEAN, present \in BOOLEAN :
          LET rawPaths == {PathJoin(d, n) : d \in RawDirs, n \in raw}
              outPaths == {JsonSchemaDataFilePath(JsonFileCacheDirDefault, p) :
                             p \in {q \in rawPaths : nested \/ Parent(q) = <<".">>}}
          IN  FileSystem(
                 {XmlFileCacheDirDefault, JsonFileCacheDirDefault}
                     \cup (IF nested THEN UNION {OutputDirsOf(d) : d \in RawDirs} ELSE {}),
                 [p \in rawPaths |-> RawBatch(Basename(p))]
                 @@ [p \in (IF present THEN outPaths ELSE {}) |-> JsonStringify(<<>>)])

NextXml ==
    \/ CallProcessCachedUsptoXmlData
    \/ XmlListCache
    \/ XmlProcessFile
    \/ XmlDone

SpecXml == InitXml /\ [][NextXml]_vars

---------------------------------------------------------------------------
(* SpecUnzip: processCachedUsptoZipFiles, called again with the same       *)
(* arguments.                                                              *)

\* the archive of the batch ipa2.xml
ArchiveIpa2 == ZipPayload(<<[name |-> FileName("ipa2", "xml"), data |-> BatchIpa2]>>)

\* what a cached archive holds
CachedArchive(name) == IF name = HrefIpa1 THEN RemoteArchives[HrefIpa1] ELSE ArchiveIpa2

\* the path extractAllTo writes the entry name to
XmlPathOf(name) == PathJoin(XmlFileCacheDirDefault, name)

\* the zip cache holds some of the archives; the output directory may be
\* missing; the entry of an archive may be absent from the output
\* directory, there as the archive holds it, or there with other bytes
InitUnzip ==
    /\ InitWorld
    /\ \E cached \in SUBSET ArchiveNames, out \in BOOLEAN,
          extracted \in [RawNames -> {"absent", "same", "other"}] :
          LET zips == [p \in {ZipPathOf(n) : n \in cached} |->
                          CachedArchive(Basename(p))]
              raws == [p \in {XmlPathOf(n) : n \in {m \in RawNames : extracted[m] # "absent"}}
                          |-> IF extracted[Basename(p)] = "same"
                              THEN RawBatch(Basename(p)) ELSE Garbage]
          IN  /\ ~out => \A n \in RawNames : extracted[n] = "absent"
              /\ FileSystem({ZipFileCacheDirDefault}
                                \cup (IF out THEN {XmlFileCacheDirDefault} ELSE {}),
                            zips @@ raws)

NextUnzip ==
    \/ CallProcessCachedUsptoZipFiles
    \/ UnzipListCache
    \/ UnzipArchive
    \/ UnzipDone

SpecUnzip == InitUnzip /\ [][NextUnzip]_vars

---------------------------------------------------------------------------
(* SpecMongo: synchronizeProcessedDataToMongoDB, called again with the     *)
(* same arguments.                                                         *)

RecordNames == {FileName("ipa1", "json"), FileName("ipa2", "json")}

RecordFile(name) ==
    IF name = FileName("ipa1", "json") THEN RecordFileIpa1 ELSE RecordFileIpa2

RecordPathOf(name) == PathJoin(JsonFileCacheDirDefault, name)

\* the documents synchronizeProcessedDataToMongoDB saves for a record file
RECURSIVE DocumentsOf(_)
DocumentsOf(records) ==
    IF records = <<>> THEN <<>>
    ELSE <<UsptoDataDocument(Head(records))>> \o DocumentsOf(Tail(records))

\* the record directory holds some record files and, or not, a directory;
\* the ledger is absent, empty, or names a file whose records are stored
InitMongo ==
    /\ InitCall
    /\ web = [y \in Years |-> <<>>]
    /\ remote = RemoteArchives
    /\ currentYear = StartYearDefault + MaxYears - 1
    /\ connections = 0
    /\ \E names \in SUBSET RecordNames, nested \in BOOLEAN,
          ledger \in {"absent", "empty", "ipa1"} :
          LET recordFiles == [p \in {RecordPathOf(n) : n \in names} |->
                                 RecordFile(Basename(p))]
          IN  /\ ledger = "ipa1" => FileName("ipa1", "json") \in names
              /\ dirs = RootDirs \cup {DirName, JsonFileCacheDirDefault}
                     \cup (IF nested
                           THEN {PathJoin(JsonFileCacheDirDefault, DirName)}
                           ELSE {})
              /\ files = CASE ledger = "absent" -> recordFiles
                           [] ledger = "empty" ->
                                  WriteFile(recordFiles, SynchronizeFilePathDefault,
                                            JsonStringify(<<>>))
                           [] ledger = "ipa1" ->
                                  WriteFile(recordFiles, SynchronizeFilePathDefault,
                                            JsonStringify(<<FileName("ipa1", "json")>>))
              /\ store = IF ledger = "ipa1"
                         THEN DocumentsOf(JsonParse(RecordFileIpa1)) ELSE <<>>

NextMongo ==
    \/ CallSynchronizeProcessedDataToMongoDB
    \/ MongoReadLedger
    \/ MongoConnect
    \/ MongoConnectFails
    \/ MongoReadFile
    \/ MongoSaveRequest
    \/ MongoSave
    \/ MongoSaveFails
    \/ MongoFilePushed
    \/ MongoDone

SpecMongo == InitMongo /\ [][NextMongo]_vars

---------------------------------------------------------------------------
(* SpecNetwork: the three functions that use the network, called one after *)
(* the other on an empty cache of archives and a directory of two record   *)
(* files.                                                                  *)

InitNetwork ==
    /\ InitWorld
    /\ FileSystem({ZipFileCacheDirDefault, JsonFileCacheDirDefault},
                  [p \in {RecordPathOf(n) : n \in RecordNames} |->
                      RecordFile(Basename(p))])

NextNetwork == NextDiscover \/ NextZip \/ NextMongo

SpecNetwork == InitNetwork /\ [][NextNetwork]_vars

---------------------------------------------------------------------------
(* Spec: synchronize, run from a script or called again by its caller.     *)

\* the first listing page of the site; the later pages list ipa02.zip
FirstPages == {<<HrefIpa1, HrefLong>>, <<HrefIpa2, HrefIpa1>>, <<HrefLong>>}

\* the file system synchronize finds: nothing but the script's directory;
\* or the cache directories, with the directories the record files are
\* written to; or a record directory that holds a record file; or a zip
\* cache that holds a file that is no archive; or the directories and an
\* archive that an earlier run cached
Init ==
    /\ InitCall
    /\ \E first \in FirstPages :
           web = [y \in Years |-> IF y = StartYearDefault THEN first
                                  ELSE <<HrefIpa2>>]
    /\ remote = RemoteArchives
    /\ currentYear = StartYearDefault + MaxYears - 1
    /\ store = <<>>
    /\ connections = 0
    /\ \/ FileSystem({}, NoFiles)
       \/ FileSystem({ZipFileCacheDirDefault, XmlFileCacheDirDefault,
                      JsonFileCacheDirDefault}
                         \cup OutputDirsOf(XmlFileCacheDirDefault),
                     NoFiles)
       \/ FileSystem({JsonFileCacheDirDefault},
                     RecordPathOf(FileName("ipa2", "json")) :> RecordFileIpa2)
       \/ FileSystem({ZipFileCacheDirDefault},
                     PathJoin(ZipFileCacheDirDefault, HrefLong) :> Garbage)
       \/ FileSystem({ZipFileCacheDirDefault, XmlFileCacheDirDefault,
                      JsonFileCacheDirDefault}
                         \cup OutputDirsOf(XmlFileCacheDirDefault),
                     ZipPathOf(HrefIpa1) :> RemoteArchives[HrefIpa1])

Next ==
    \/ CallSynchronize
    \/ FetchYearPageRequest
    \/ FetchYearPage
    \/ FetchYearPageFails
    \/ ParseYearPages
    \/ ZipListCache
    \/ ZipSkipCached
    \/ ZipFetchArchiveRequest
    \/ ZipFetchArchive
    \/ ZipFetchArchiveFails
    \/ ZipDone
    \/ UnzipListCache
    \/ UnzipArchive
    \/ UnzipDone
    \/ XmlListCache
    \/ XmlProcessFile
    \/ XmlDone
    \/ MongoReadLedger
    \/ MongoConnect
    \/ MongoConnectFails
    \/ MongoReadFile
    \/ MongoSaveRequest
    \/ MongoSave
    \/ MongoSaveFails
    \/ MongoFilePushed
    \/ MongoDone
    \/ Kill
    \/ KillDuringExtract
    \/ KillDuringWrite

Spec == Init /\ [][Next]_vars

---------------------------------------------------------------------------
(* synchronizeUsptoZipFiles: the claims.                                   *)

ZipCallRuns == top = "synchronizeUsptoZipFiles" /\ calls > 0

\* every reference of the call names a file the cache held when it began
AllCachedAtCall ==
    \A i \in 1..Len(usptoZipFileInfos) :
        ZipPathOf(usptoZipFileInfos[i].name) \in DOMAIN FilesAtCall

\* C4: a call of synchronizeUsptoZipFiles whose references all name files
\* that are in the cache directory when it begins fetches nothing and
\* writes nothing; in any call, an archive that was in the cache when the
\* call began is not fetched and keeps its content, whatever it is.
C4_CachedArchivesAreLeftAlone ==
    ZipCallRuns =>
        /\ AllCachedAtCall =>
              /\ LastCallOps("archive") = <<>>
              /\ LastCallOps("write") = <<>>
              /\ files = FilesAtCall
        /\ \A i \in 1..Len(LastCall) :
              LastCall[i].op = "archive" =>
                  ZipPathOf(LastCall[i].arg.file) \notin DOMAIN FilesAtCall
        /\ \A p \in DOMAIN FilesAtCall :
              p \in DOMAIN files /\ files[p] = FilesAtCall[p]

\* a second call has returned; its two references were cached when it
\* began, one by the first call and one with bytes the site does not serve
C4_Witness ==
    /\ ZipCallRuns
    /\ calls = 2
    /\ pc = "idle"
    /\ outcome = "returned"
    /\ AllCachedAtCall
    /\ Len(usptoZipFileInfos) >= 2
    /\ Ops("archive") # <<>>
    /\ \E i \in 1..Len(usptoZipFileInfos) :
           files[ZipPathOf(usptoZipFileInfos[i].name)] #
               remote[usptoZipFileInfos[i].name]

\* C9: once the fetch of a reference has failed the call is over: it has
\* thrown, nothing is fetched or written after the failed fetch, and the
\* files the cache held before the call and those written earlier in the
\* call are still there with their content.
C9_FetchFailureAborts ==
    ZipCallRuns =>
        \A i \in 1..Len(LastCall) :
            (LastCall[i].op = "archive" /\ ~LastCall[i].ok) =>
                /\ pc = "idle"
                /\ outcome = "threw"
                /\ \A j \in (i + 1)..Len(LastCall) : LastCall[j].op = "throw"
                /\ \A p \in DOMAIN FilesAtCall :
                       p \in DOMAIN files /\ files[p] = FilesAtCall[p]
                /\ \A j \in 1..(i - 1) :
                       LastCall[j].op = "write" =>
                           /\ LastCall[j].arg \in DOMAIN files
                           /\ files[LastCall[j].arg] =
                                  remote[Basename(LastCall[j].arg)]
                /\ DOMAIN files = DOMAIN FilesAtCall \cup
                       {LastCall[j].arg : j \in {k \in 1..(i - 1) : LastCall[k].op = "write"}}

\* a call has thrown on its second fetch: the first archive is written,
\* the one whose fetch failed is not, and a reference is left unfetched
C9_Witness ==
    /\ ZipCallRuns
    /\ outcome = "threw"
    /\ Len(LastCallOps("archive")) = 2
    /\ Len(LastCallOps("write")) = 1
    /\ ~LastCallOps("archive")[2].ok
    /\ ZipPathOf(LastCallOps("archive")[2].arg.file) \notin DOMAIN files
    /\ idx < Len(usptoZipFileInfos)

\* the references of the call whose name was not a file of the cache
\* directory when the call began, in input order
MissingAtCall ==
    SelectSeq(usptoZipFileInfos,
              LAMBDA info : ZipPathOf(info.name) \notin DOMAIN FilesAtCall)

ZipCallReturned == ZipCallRuns /\ pc = "idle" /\ outcome = "returned"

\* C16: when synchronizeUsptoZipFiles has returned, the cache directory
\* exists and holds a file for every reference name; the references that
\* were missing were fetched in input order, one fetch each; and in any
\* call the payload of a fetch is written to cacheDir/name right after the
\* fetch, before the next request is made.
C16_EveryReferenceCachedInOrder ==
    /\ ZipCallReturned =>
          /\ ZipFileCacheDirDefault \in dirs
          /\ \A i \in 1..Len(usptoZipFileInfos) :
                 ZipPathOf(usptoZipFileInfos[i].name) \in DOMAIN files
          /\ Len(LastCallOps("archive")) = Len(MissingAtCall)
          /\ \A k \in 1..Len(MissingAtCall) :
                 /\ LastCallOps("archive")[k].arg = MissingAtCall[k].url
                 /\ LastCallOps("archive")[k].ok
    /\ ZipCallRuns =>
          \A i \in 1..Len(LastCall) :
              (LastCall[i].op = "archive" /\ LastCall[i].ok /\ i < Len(LastCall)) =>
                  \/ LastCall[i + 1].op = "throw"
                  \/ /\ LastCall[i + 1].op = "write"
                     /\ LastCall[i + 1].arg = ZipPathOf(LastCall[i].arg.file)
                     /\ LastCall[i + 1].arg \in DOMAIN files

\* a call has returned after fetching two different archives, one after
\* the other
C16_Witness ==
    /\ ZipCallReturned
    /\ Len(MissingAtCall) = 2
    /\ MissingAtCall[1] # MissingAtCall[2]
    /\ Len(LastCallOps("write")) = 2
    /\ files[ZipPathOf(MissingAtCall[2].name)] = remote[MissingAtCall[2].name]

---------------------------------------------------------------------------
(* processCachedUsptoZipFiles: the claims.                                 *)

\* the archives of the zip cache the running (or last) call found
ArchivesAtCall ==
    {p \in DOMAIN FilesAtCall : Parent(p) = ZipFileCacheDirDefault}

\* every entry of the archive at path was in the output directory when
\* the call began
ExtractedAtCall(path) ==
    /\ FilesAtCall[path].kind = "zip"
    /\ FilesAtCall[path].body # <<>>
    /\ \A i \in 1..Len(FilesAtCall[path].body) :
           XmlPathOf(FilesAtCall[path].body[i].name) \in DOMAIN FilesAtCall

\* C11: a call of processCachedUsptoZipFiles made when every cached archive
\* is already extracted (each of its entries is a file of the output
\* directory) performs zero extractions.
C11_ExtractedArchivesAreSkipped ==
    (/\ top = "processCachedUsptoZipFiles"
     /\ calls > 0
     /\ ArchivesAtCall # {}
     /\ \A p \in ArchivesAtCall : ExtractedAtCall(p))
        => LastCallOps("extract") = <<>>

---------------------------------------------------------------------------
(* processUsptoXmlFile: the claims.                                        *)

\* the documents of a batch that is well formed (line breaks, and elements
\* that are opened, then closed, one after the other), in file order; the
\* batch is not well formed when `bad` is set
RECURSIVE ScanBatch(_, _, _)
ScanBatch(tokens, inside, docs) ==
    IF tokens = <<>> THEN [bad |-> inside, docs |-> docs]
    ELSE CASE Head(tokens).t = "open" ->
                  IF inside THEN [bad |-> TRUE, docs |-> docs]
                  ELSE ScanBatch(Tail(tokens), TRUE,
                                 Append(docs, Head(tokens).doc[1]))
           [] Head(tokens).t = "close" ->
                  IF inside THEN ScanBatch(Tail(tokens), FALSE, docs)
                  ELSE [bad |-> TRUE, docs |-> docs]
           [] OTHER -> ScanBatch(Tail(tokens), inside, docs)

ParsedBatch == ScanBatch(files[args.bulkXmlFilePath].body, FALSE, <<>>)

\* the batch holds N >= 0 documents, all of them complete
WellFormedBatch ==
    /\ ~ParsedBatch.bad
    /\ \A i \in 1..Len(ParsedBatch.docs) : ~ProjectionThrows(ParsedBatch.docs[i])

ParseCallOver == top = "processUsptoXmlFile" /\ pc = "idle" /\ calls > 0

\* C6: processUsptoXmlFile on a batch of N >= 1 well-formed documents
\* returns N records, the i-th one built from the i-th document; and
\* whenever it returns on a well-formed batch the records are those of
\* its documents, in order.
C6_OneRecordPerDocumentInOrder ==
    (ParseCallOver /\ WellFormedBatch) =>
        /\ Len(ParsedBatch.docs) >= 1 => outcome = "returned"
        /\ outcome = "returned" =>
              /\ Len(result) = Len(ParsedBatch.docs)
              /\ \A i \in 1..Len(result) :
                     /\ result[i] = RecordsOf(ParsedBatch.docs)[i]
                     /\ result[i].documentNumber = ParsedBatch.docs[i].docNumber

\* two different documents with a line break between them were parsed
C6_Witness ==
    /\ ParseCallOver
    /\ WellFormedBatch
    /\ outcome = "returned"
    /\ Len(result) = 2
    /\ result[1].documentNumber # result[2].documentNumber
    /\ Len(files[args.bulkXmlFilePath].body) = 5

\* one of the thirteen fields of a record is absent in the document
FieldAbsent(doc) ==
    \/ doc.attrs = Undefined
    \/ (doc.attrs # Undefined /\
        \E a \in {"lang", "country", "dateProduced", "datePubl",
                  "dtdVersion", "file", "status"} : doc.attrs[1][a] = Undefined)
    \/ doc.abstract = Undefined
    \/ doc.claims = Undefined
    \/ doc.headings = Undefined
    \/ doc.title = Undefined
    \/ (doc.title # Undefined /\
        (\/ doc.title[1].text = Undefined
         \/ doc.title[1].attrs = Undefined
         \/ (doc.title[1].attrs # Undefined /\
             doc.title[1].attrs[1].id = Undefined)))
    \/ doc.docNumber = Undefined

\* one of the thirteen fields of the record is undefined
FieldUndefined(record) ==
    \E f \in {"language", "country", "dateProduced", "datePublished",
              "dtdVersion", "xmlFile", "patentStatus", "inventionTitle",
              "inventionId", "documentNumber"} : record[f] = Undefined

\* C13: when a field is absent in a document of the batch (its elements
\* opened and closed one after the other), processUsptoXmlFile throws: it
\* returns no record with a field undefined.
C13_AbsentFieldFailsTheBatch ==
    (/\ ParseCallOver
     /\ ~ParsedBatch.bad
     /\ \E i \in 1..Len(ParsedBatch.docs) : FieldAbsent(ParsedBatch.docs[i]))
        => /\ outcome = "threw"
           /\ \A i \in 1..Len(result) : ~FieldUndefined(result[i])

---------------------------------------------------------------------------
(* processCachedUsptoXmlData: the claims.                                  *)

\* the raw files the directory of the call held when the call began
RawFilesAtCall ==
    {p \in DOMAIN FilesAtCall : Parent(p) = args.usptoXmlFileCacheDir}

\* the file name with its extension replaced by .json, in the directory
ReplacedExtensionPath(jsonDir, xmlFilePath) ==
    PathJoin(jsonDir, <<Basename(xmlFilePath)[1], ".", "json">>)

\* C3: a call of processCachedUsptoXmlData made when the output file of
\* every raw file exists parses nothing and writes nothing.
C3_ExistingOutputIsNotParsedAgain ==
    (/\ top = "processCachedUsptoXmlData"
     /\ calls > 0
     /\ \A p \in RawFilesAtCall :
            /\ JsonSchemaDataFilePath(args.usptoJsonFileCacheDir, p)
                   \in DOMAIN FilesAtCall
            /\ ReplacedExtensionPath(args.usptoJsonFileCacheDir, p)
                   \in DOMAIN FilesAtCall)
        => /\ LastCallOps("parse") = <<>>
           /\ LastCallOps("write") = <<>>
           /\ files = FilesAtCall

\* C18: when processCachedUsptoXmlData has returned, every raw file has
\* its record file directly inside the output directory, under its own
\* name with the extension replaced by .json, and nothing was written
\* anywhere else.
C18_RecordFileDirectlyInOutputDir ==
    (/\ top = "processCachedUsptoXmlData"
     /\ calls > 0
     /\ pc = "idle"
     /\ outcome = "returned")
        => /\ \A p \in RawFilesAtCall :
                  ReplacedExtensionPath(args.usptoJsonFileCacheDir, p)
                      \in DOMAIN files
           /\ \A k \in 1..Len(LastCallOps("write")) :
                  Parent(LastCallOps("write")[k].arg) = args.usptoJsonFileCacheDir

---------------------------------------------------------------------------
(* synchronizeProcessedDataToMongoDB: the claims.                          *)

MongoCallOver ==
    top = "synchronizeProcessedDataToMongoDB" /\ pc = "idle" /\ calls > 0

\* the index in the log of the entry of the running (or last) call
LastCallIndex == Len(trace) - Len(LastCall)

\* the call before this one returned
PreviousCallReturned ==
    LastCallIndex > 1 /\ trace[LastCallIndex - 1].op = "done"

\* the ledger the first call found was absent or the empty array
LedgerStartedEmpty ==
    LET found == Ops("call")[1].arg.files
    IN  \/ SynchronizeFilePathDefault \notin DOMAIN found
        \/ found[SynchronizeFilePathDefault] = JsonStringify(<<>>)

\* the record files of the record directory
RecordFilesNow ==
    {p \in DOMAIN files :
        Parent(p) = JsonFileCacheDirDefault /\ p # SynchronizeFilePathDefault}

\* how many documents of the store are equal to document
CountInStore(document) ==
    Cardinality({i \in 1..Len(store) : store[i] = document})

\* every record of the record file at path has its document in the store
EveryRecordStored(path) ==
    \A i \in 1..Len(JsonParse(files[path])) :
        CountInStore(UsptoDataDocument(JsonParse(files[path])[i])) >= 1

\* the names the ledger file holds (none when the file is absent)
LedgerNames ==
    IF SynchronizeFilePathDefault \in DOMAIN files
    THEN JsonParse(files[SynchronizeFilePathDefault]) ELSE <<>>

\* C1: with a ledger that began empty or absent, a call made after a call
\* that returned performs no insert, and after the calls that returned
\* every record of every record file is in the store exactly once.
C1_SecondSyncInsertsNothing ==
    (/\ top = "synchronizeProcessedDataToMongoDB"
     /\ LedgerStartedEmpty
     /\ PreviousCallReturned)
        => /\ LastCallOps("insert") = <<>>
           /\ \A p \in RecordFilesNow :
                  \A i \in 1..Len(JsonParse(files[p])) :
                      CountInStore(UsptoDataDocument(JsonParse(files[p])[i])) = 1

\* C2: between calls, a file name is in the ledger if and only if every
\* record of that file is in the store.
C2_LedgerIffEveryRecordStored ==
    MongoCallOver =>
        \A p \in RecordFilesNow :
            Basename(p) \in Range(LedgerNames) <=> EveryRecordStored(p)

\* the documents the record files of the record directory were parsed from
SampleDocuments == {DocUS001, DocUS002, DocUS003}

\* deserializing the text blob once gives the sequence value (a JSON
\* string literal deserializes to a string, never to a sequence)
DeserializesTo(blob, value) ==
    JsonParses(blob) /\ blob.kind = "json" /\ JsonParse(blob) = value

\* C12: every row of the store (the store began empty) is the row of a
\* parsed document, and deserializing its abstract, claims and headings
\* text once gives the sequences the parser extracted from that document.
C12_NestedFieldsRoundTrip ==
    (/\ top = "synchronizeProcessedDataToMongoDB"
     /\ calls > 0
     /\ LedgerStartedEmpty)
        => \A i \in 1..Len(store) :
               \E doc \in SampleDocuments :
                   LET data == ProcessedPatentData(doc)
                   IN  /\ store[i].documentNumber = data.documentNumber
                       /\ DeserializesTo(store[i].patentAbstract, data.patentAbstract)
                       /\ DeserializesTo(store[i].patentClaims, data.patentClaims)
                       /\ DeserializesTo(store[i].patentHeadings, data.patentHeadings)

\* the names the ledger held when the running (or last) call began
LedgerAtCall ==
    IF SynchronizeFilePathDefault \in DOMAIN FilesAtCall
    THEN JsonParse(FilesAtCall[SynchronizeFilePathDefault]) ELSE <<>>

\* the inserts of the records of the file name, in their order in the file
InsertsOfFile(name) ==
    [i \in 1..Len(JsonParse(files[RecordPathOf(name)])) |->
        Event("insert", [file |-> name, index |-> i], TRUE)]

\* the inserts of the files names, in the order of names
RECURSIVE InsertsOfFiles(_)
InsertsOfFiles(names) ==
    IF names = <<>> THEN <<>>
    ELSE InsertsOfFile(Head(names)) \o InsertsOfFiles(Tail(names))

\* the rows of the inserts, in order
RowsOf(inserts) ==
    [k \in 1..Len(inserts) |->
        UsptoDataDocument(
            JsonParse(files[RecordPathOf(inserts[k].arg.file)])[inserts[k].arg.index])]

\* C17: no insert is made for a file whose name the ledger held when the
\* call began; when the call has returned, the inserts it made are, for
\* the other files of the record directory in the order of the directory
\* listing, one insert per record in the order of the file, and each
\* insert added the row of its record to the store.
C17_UnsynchronizedFilesPushedInOrder ==
    (top = "synchronizeProcessedDataToMongoDB" /\ calls > 0) =>
        /\ \A k \in 1..Len(LastCallOps("insert")) :
               LastCallOps("insert")[k].arg.file \notin Range(LedgerAtCall)
        /\ (pc = "idle" /\ outcome = "returned") =>
               LET inserts == LastCallOps("insert")
               IN  /\ Range(processedJsonCachedFiles) =
                          {Basename(p) : p \in RecordFilesNow} \ Range(LedgerAtCall)
                   /\ Len(processedJsonCachedFiles) =
                          Cardinality(Range(processedJsonCachedFiles))
                   /\ inserts = InsertsOfFiles(processedJsonCachedFiles)
                   /\ Len(store) >= Len(inserts)
                   /\ SubSeq(store, Len(store) - Len(inserts) + 1, Len(store))
                          = RowsOf(inserts)

\* the ledger named ipa1.json when the call began; the call has returned
\* after pushing the record of ipa2.json and none of ipa1.json
C17_Witness ==
    /\ MongoCallOver
    /\ outcome = "returned"
    /\ FileName("ipa1", "json") \in Range(LedgerAtCall)
    /\ RecordPathOf(FileName("ipa1", "json")) \in DOMAIN files
    /\ RecordPathOf(FileName("ipa2", "json")) \in DOMAIN files
    /\ LastCallOps("insert") = InsertsOfFile(FileName("ipa2", "json"))

\* C19: whenever a call of synchronizeProcessedDataToMongoDB is over,
\* returned or thrown, no store connection is open.
C19_ConnectionReleasedAtEnd ==
    MongoCallOver => connections = 0

\* the operations of the call before the running (or last) one
PreviousCall ==
    IF LastCallIndex > 1
    THEN LastCallFrom(SubSeq(trace, 1, LastCallIndex - 1), <<>>)
    ELSE <<>>

\* the inserts of a call that succeeded
Inserted(call) == SelectSeq(call, LAMBDA e : e.op = "insert" /\ e.ok)

\* the inserts of a call that failed
FailedInserts(call) == SelectSeq(call, LAMBDA e : e.op = "insert" /\ ~e.ok)

\* C20: once an insert has failed the call is over: it has thrown, nothing
\* is done after the failed insert, the rows inserted before it are the
\* last rows of the store, and the ledger does not name the file of the
\* failed insert; the next call lists that file again and pushes it from
\* its first record.
C20_InsertFailureHaltsTheCall ==
    (top = "synchronizeProcessedDataToMongoDB" /\ calls > 0) =>
        /\ \A i \in 1..Len(LastCall) :
               (LastCall[i].op = "insert" /\ ~LastCall[i].ok) =>
                   /\ pc = "idle"
                   /\ outcome = "threw"
                   /\ i = Len(LastCall) - 1
                   /\ LastCall[Len(LastCall)].op = "throw"
                   /\ Len(store) >= Len(Inserted(LastCall))
                   /\ SubSeq(store, Len(store) - Len(Inserted(LastCall)) + 1,
                             Len(store)) = RowsOf(Inserted(LastCall))
                   /\ LastCall[i].arg.file \notin Range(LedgerNames)
        /\ \A k \in 1..Len(FailedInserts(PreviousCall)) :
               LET name == FailedInserts(PreviousCall)[k].arg.file
                   again == SelectSeq(LastCall,
                                LAMBDA e : e.op = "insert" /\ e.arg.file = name)
               IN  /\ LastCallOps("connect") # <<>> =>
                          name \in Range(processedJsonCachedFiles)
                   /\ again # <<>> => again[1].arg.index = 1
                   /\ (pc = "idle" /\ outcome = "returned") =>
                          again = InsertsOfFile(name)

\* the second insert of ipa1.json failed in the first call, leaving one
\* row; the second call has returned after pushing both records
C20_Witness ==
    /\ MongoCallOver
    /\ calls = 2
    /\ outcome = "returned"
    /\ FailedInserts(PreviousCall) # <<>>
    /\ FailedInserts(PreviousCall)[1].arg
           = [file |-> FileName("ipa1", "json"), index |-> 2]
    /\ Len(Inserted(PreviousCall)) = 1
    /\ CountInStore(UsptoDataDocument(JsonParse(RecordFileIpa1)[1])) = 2

---------------------------------------------------------------------------
(* synchronize: the claims.                                                *)

\* the stage an operation of the log belongs to (0: any)
StageOfOp(e) ==
    CASE e.op = "listing" -> {1}
      [] e.op = "archive" -> {2}
      [] e.op = "extract" -> {3}
      [] e.op = "parse"   -> {4}
      [] e.op = "write"   -> {2, 4}
      [] e.op \in {"connect", "read", "insert"} -> {5}
      [] e.op = "request" -> {1, 2, 5}
      [] OTHER -> 1..Len(Stages)

\* the number of stages started in the first i entries of the log call
StagesStarted(call, i) ==
    Cardinality({j \in 1..i : call[j].op = "stage"})

\* the stage the statement at pc belongs to
StageOfPc ==
    CASE pc \in {"fetch.loop", "fetch.await"} -> 1
      [] pc \in {"zip.start", "zip.loop", "zip.await"} -> 2
      [] pc \in {"unzip.start", "unzip.loop"} -> 3
      [] pc \in {"xml.start", "xml.loop"} -> 4
      [] pc \in {"mongo.start", "mongo.connect", "mongo.loop", "mongo.records",
                  "mongo.await"} -> 5
      [] OTHER -> 0

\* C10: in a call of synchronize the stages start in the order discovery,
\* archive fetch, extraction, record-cache writing, store synchronization,
\* each at most once; a stage starts right after the stage before it has
\* returned; every operation is performed by the stage that is running;
\* and once a stage has thrown the call is over: nothing is started or
\* performed after it.
C10_StagesInOrderOnceEach ==
    (top = "synchronize" /\ calls > 0) =>
        LET call == LastCall
            started == SelectSeq(call, LAMBDA e : e.op = "stage")
        IN  /\ Len(started) \in 1..Len(Stages)
            /\ \A k \in 1..Len(started) : started[k].arg = Stages[k]
            /\ pc # "idle" => StageOfPc = Len(started)
            /\ \A i \in 1..Len(call) :
                   /\ StagesStarted(call, i) \in StageOfOp(call[i])
                   /\ (call[i].op = "stage" /\ i > 1) =>
                          /\ call[i - 1].op = "done"
                          /\ call[i - 1].arg = Stages[StagesStarted(call, i) - 1]
                   /\ call[i].op = "done" =>
                          call[i].arg = Stages[StagesStarted(call, i)]
                   /\ call[i].op = "throw" =>
                          /\ i = Len(call)
                          /\ pc = "idle"
                          /\ outcome = "threw"
            /\ (pc = "idle" /\ outcome = "returned") => Len(started) = Len(Stages)

\* a call of synchronize has returned: an archive was fetched and
\* extracted, and a record was saved by the fifth stage
C10_Witness ==
    /\ top = "synchronize"
    /\ pc = "idle"
    /\ outcome = "returned"
    /\ Len(LastCallOps("stage")) = Len(Stages)
    /\ LastCallOps("archive") # <<>>
    /\ LastCallOps("extract") # <<>>
    /\ LastCallOps("insert") # <<>>

\* what one run of synchronize that is not interrupted and returns leaves,
\* computed stage by stage from the files fs a run starts with

\* lines 178-197: the archives of infos that are not cached are written
RECURSIVE FetchedInto(_, _)
FetchedInto(fs, infos) ==
    IF infos = <<>> THEN fs
    ELSE FetchedInto(
            IF ZipPathOf(Head(infos).name) \in DOMAIN fs THEN fs
            ELSE WriteFile(fs, ZipPathOf(Head(infos).name),
                           remote[Head(infos).name]),
            Tail(infos))

\* lines 225-229: the archives at paths are extracted
RECURSIVE ExtractedInto(_, _)
ExtractedInto(fs, paths) ==
    IF paths = <<>> THEN fs
    ELSE ExtractedInto(
            ExtractAllTo(fs, XmlFileCacheDirDefault, fs[Head(paths)].body),
            Tail(paths))

\* lines 343-348: the record files of the raw files at paths are written
RECURSIVE WrittenInto(_, _)
WrittenInto(fs, paths) ==
    IF paths = <<>> THEN fs
    ELSE WrittenInto(
            WriteFile(fs, JsonSchemaDataFilePath(JsonFileCacheDirDefault, Head(paths)),
                      JsonStringify(ProcessUsptoXmlFile(Head(paths)).value)),
            Tail(paths))

\* the files of fs that lie in the directory dir
FilesIn(fs, dir) == {p \in DOMAIN fs : Parent(p) = dir}

\* the files one uninterrupted run leaves
UninterruptedFiles(fs) ==
    LET fetched   == FetchedInto(fs, usptoZipFileInfos)
        extracted == ExtractedInto(fetched,
                         SomeOrdering(FilesIn(fetched, ZipFileCacheDirDefault)))
        written   == WrittenInto(extracted,
                         SomeOrdering(FilesIn(extracted, XmlFileCacheDirDefault)))
    IN  IF SynchronizeFilePathDefault \in DOMAIN written THEN written
        ELSE WriteFile(written, SynchronizeFilePathDefault, JsonStringify(<<>>))

\* lines 413-443: the documents of the record files at paths
RECURSIVE StoredFrom(_, _)
StoredFrom(fs, paths) ==
    IF paths = <<>> THEN <<>>
    ELSE DocumentsOf(JsonParse(fs[Head(paths)])) \o StoredFrom(fs, Tail(paths))

\* the documents one uninterrupted run saves: those of the record files
\* that the ledger does not name
UninterruptedStore(fs) ==
    LET end == UninterruptedFiles(fs)
    IN  StoredFrom(end,
            SomeOrdering({p \in FilesIn(end, JsonFileCacheDirDefault) :
                             Basename(p) \notin Range(JsonParse(end[SynchronizeFilePathDefault]))}))

\* the statements between the return of the archive fetch stage and the
\* start of the store synchronization stage
BetweenFetchAndStore == {"unzip.start", "unzip.loop", "xml.start", "xml.loop"}

\* every run before the last one was killed between the archive fetch
\* stage and the store synchronization stage
EarlierRunsKilledBeforeStore ==
    \A i \in 2..Len(trace) :
        trace[i].op = "call" =>
            /\ trace[i - 1].op = "kill"
            /\ trace[i - 1].arg \in BetweenFetchAndStore

SynchronizeReturned ==
    top = "synchronize" /\ calls > 0 /\ pc = "idle" /\ outcome = "returned"

\* the two sequences hold the same documents, each as many times
SameDocuments(s, t) ==
    /\ Len(s) = Len(t)
    /\ \A i \in 1..Len(s) :
           Cardinality({j \in 1..Len(s) : s[j] = s[i]})
               = Cardinality({j \in 1..Len(t) : t[j] = s[i]})

---------------------------------------------------------------------------
(* The network: the claims.                                                *)

\* the operations that settle a request: the answer to a listing fetch, to
\* an archive fetch, to an insert
Settlements == {"listing", "archive", "insert"}

\* the number of requests of the running (or last) call that are in flight
InFlight ==
    Len(LastCallOps("request"))
        - Len(SelectSeq(LastCall, LAMBDA e : e.op \in Settlements))

\* C15: at most one network operation is in flight; a request is followed
\* in the log by its own settlement before anything else is done, and no
\* request is in flight when the call returns or throws.
C15_OneRequestInFlight ==
    calls > 0 =>
        /\ InFlight \in {0, 1}
        /\ LET call == LastCall
           IN  \A i \in 1..Len(call) :
                   (call[i].op = "request" /\ i < Len(call)) =>
                       /\ call[i + 1].op \in Settlements \cup {"kill"}
                       /\ call[i + 1].op \in Settlements =>
                              call[i + 1].arg = call[i].arg
        /\ (pc = "idle" /\ outcome \in {"returned", "threw"}) => InFlight = 0

\* two listing fetches were made by one call and two inserts by another
C15_Witness ==
    /\ calls = 2
    /\ pc = "idle"
    /\ Len(Ops("listing")) >= 2
    /\ Len(Ops("insert")) >= 2
    /\ InFlight = 0

---------------------------------------------------------------------------
(* synchronize on a machine that has never run it.                         *)

\* the first call began on a file system that holds the script's directory
\* and nothing else: no cache directory, no ledger
FreshStart ==
    /\ Ops("call")[1].arg.files = NoFiles
    /\ Ops("call")[1].arg.dirs \cap {ZipFileCacheDirDefault,
                                     XmlFileCacheDirDefault,
                                     JsonFileCacheDirDefault} = {}

\* every listing fetch, archive fetch, parse, connection and insert of the
\* running call has succeeded, and nothing killed the process
EveryOperationSucceeded ==
    /\ outcome # "killed"
    /\ \A i \in 1..Len(LastCall) :
           LastCall[i].op \in {"listing", "archive", "parse", "connect",
                               "insert"} => LastCall[i].ok

\* every listing page of the site holds a link to an archive
EveryPageHasLink == \A y \in DOMAIN web : ~MatchIsNull(LinkMatch(web[y]))

\* C21: the first call of synchronize on a file system without cache
\* directory and ledger, all of whose fetches, parses and inserts succeed,
\* does not throw: no write of a stage finds its directory missing, and
\* the call ends returned after the store-synchronization stage has begun.
C21_FreshRunReachesStoreAndReturns ==
    (/\ top = "synchronize"
     /\ calls = 1
     /\ FreshStart
     /\ EveryOperationSucceeded
     /\ EveryPageHasLink) =>
        /\ outcome # "threw"
        /\ \A i \in 1..Len(LastCall) :
               LastCall[i].op = "write" => LastCall[i].ok
        /\ pc = "idle" =>
               /\ outcome = "returned"
               /\ Stages[Len(Stages)] \in
                      {LastCallOps("stage")[k].arg :
                           k \in 1..Len(LastCallOps("stage"))}

---------------------------------------------------------------------------
(* synchronizeUsptoZipFiles: the listing is a snapshot.                    *)

\* the names the cache directory held when the running (or last) call began
NamesAtCall == {Basename(p) : p \in ArchivesAtCall}

AbsentAtCall(info) == info.name \notin NamesAtCall

\* C22: the listing synchronizeUsptoZipFiles consults is the content of the
\* cache directory when the call began, also after the call has written
\* files; the requests made so far are those of the references passed so
\* far whose name is absent from that content, in input order; and when
\* the call has returned, a name absent from that content has been
\* requested as many times as it occurs in the input.
C22_FetchDecidedBySnapshot ==
    ZipCallRuns =>
        LET requests == LastCallOps("request")
            missing  == SelectSeq(usptoZipFileInfos, AbsentAtCall)
            passed   == IF pc = "zip.loop" THEN idx - 1 ELSE idx
        IN  /\ pc \in {"zip.loop", "zip.await"} =>
                   /\ Range(cachedZipFilePaths) = NamesAtCall
                   /\ Len(requests) =
                          Len(SelectSeq(Take(usptoZipFileInfos, passed),
                                        AbsentAtCall))
            /\ Len(requests) <= Len(missing)
            /\ \A k \in 1..Len(requests) : requests[k].arg = missing[k].url
            /\ ZipCallReturned =>
                   \A n \in DOMAIN remote :
                       n \notin NamesAtCall =>
                           Cardinality({k \in 1..Len(requests) :
                                            requests[k].arg = RefOf(n).url})
                             = Cardinality({i \in 1..Len(usptoZipFileInfos) :
                                            usptoZipFileInfos[i].name = n})

\* a call has returned whose input named twice an archive the cache did not
\* hold when the call began: the archive was fetched and written twice
C22_Witness ==
    /\ ZipCallReturned
    /\ \E i, j \in 1..Len(usptoZipFileInfos) :
           /\ i < j
           /\ usptoZipFileInfos[i] = usptoZipFileInfos[j]
           /\ AbsentAtCall(usptoZipFileInfos[i])
           /\ Len(SelectSeq(LastCallOps("archive"),
                            LAMBDA e : e.arg = usptoZipFileInfos[i].url)) = 2
           /\ Len(SelectSeq(LastCallOps("write"),
                            LAMBDA e : e.arg =
                                ZipPathOf(usptoZipFileInfos[i].name))) = 2

---------------------------------------------------------------------------
(* fetchUsptoZipFileInfos: the years that are fetched.                     *)

\* the URLs of the listing pages of startYear..endYear, in ascending order
YearUrlsOfCall ==
    IF args.startYear > args.endYear THEN <<>>
    ELSE [k \in 1..(args.endYear - args.startYear + 1) |->
              YearUrl(args.startYear + k - 1)]

\* C23: the listing fetches of a call of fetchUsptoZipFileInfos are those
\* of the years startYear..endYear in ascending order, each requested and
\* fetched at most once; a call that is over and none of whose fetches
\* failed has fetched every one of them, whatever fileLimit is; and a call
\* with startYear > endYear requests nothing and returns no reference.
C23_OneListingFetchPerYear ==
    (top = "fetchUsptoZipFileInfos" /\ calls > 0) =>
        LET listings == LastCallOps("listing")
            requests == LastCallOps("request")
        IN  /\ Len(listings) <= Len(requests)
            /\ Len(requests) <= Len(YearUrlsOfCall)
            /\ \A k \in 1..Len(requests) : requests[k].arg = YearUrlsOfCall[k]
            /\ \A k \in 1..Len(listings) : listings[k].arg = YearUrlsOfCall[k]
            /\ (pc = "idle" /\ NoListingFailed) =>
                   Len(listings) = Len(YearUrlsOfCall)
            /\ (pc = "idle" /\ args.startYear > args.endYear) =>
                   /\ outcome = "returned"
                   /\ result = <<>>

\* a call with fileLimit = 0 over two years has returned no reference
\* after fetching both pages, which hold links
C23_Witness ==
    /\ FetchReturned
    /\ args.fileLimit = 0
    /\ args.startYear < args.endYear
    /\ Len(LastCallOps("listing")) = 2
    /\ LastCallOps("listing")[1].arg.page < LastCallOps("listing")[2].arg.page
    /\ SiteRefs(args.startYear, args.endYear) # <<>>
    /\ result = <<>>

---------------------------------------------------------------------------
(* processUsptoXmlFile: a file without a document.                         *)

\* the file of the call holds no us-patent-application element
NoDocumentInFile ==
    \A k \in 1..Len(files[args.bulkXmlFilePath].body) :
        files[args.bulkXmlFilePath].body[k].t # "open"

\* C24: processUsptoXmlFile called on a file that holds no document
\* returns, and returns the empty sequence of records.
C24_NoDocumentGivesNoRecord ==
    (ParseCallOver /\ NoDocumentInFile) =>
        /\ outcome = "returned"
        /\ result = <<>>

---------------------------------------------------------------------------
(* synchronize: archives cached by earlier runs.                           *)

\* the archives the zip cache held when the run began that are not among
\* the references the discovery of the run returned
CachedNotDiscovered ==
    {p \in ArchivesAtCall :
        /\ FilesAtCall[p].kind = "zip"
        /\ \A i \in 1..Len(usptoZipFileInfos) :
               usptoZipFileInfos[i].name # Basename(p)}

\* the archive at path was extracted in the running (or last) call
ExtractedInCall(path) ==
    \E i \in 1..Len(LastCall) :
        LastCall[i] = Event("extract", path, TRUE)

\* the raw file of the entry was parsed and its record file written in the
\* running (or last) call
MaterializedInCall(entry) ==
    \E i \in 1..(Len(LastCall) - 1) :
        /\ LastCall[i] = Event("parse", XmlPathOf(entry.name), TRUE)
        /\ LastCall[i + 1].op = "write"
        /\ LastCall[i + 1].ok

\* the documents of the entry are rows of the store
PushedToStore(entry) ==
    LET docs == ScanBatch(entry.data.body, FALSE, <<>>).docs
    IN  \A i \in 1..Len(docs) :
            CountInStore(DocumentsOf(RecordsOf(docs))[i]) >= 1

\* C25: when a synchronize run all of whose operations succeeded is over,
\* it has returned, and every archive the zip cache held when the run began
\* that is not among the references of the run's discovery was extracted,
\* its raw files were materialized and their records were pushed to the
\* store.
C25_CachedArchivesGoThroughEveryStage ==
    (/\ top = "synchronize"
     /\ calls > 0
     /\ pc = "idle"
     /\ EveryOperationSucceeded
     /\ EveryPageHasLink
     /\ CachedNotDiscovered # {}) =>
        /\ outcome = "returned"
        /\ \A p \in CachedNotDiscovered :
               /\ ExtractedInCall(p)
               /\ \A k \in 1..Len(FilesAtCall[p].body) :
                      /\ MaterializedInCall(FilesAtCall[p].body[k])
                      /\ PushedToStore(FilesAtCall[p].body[k])

\* up to the record file the run does handle such an archive: it is
\* extracted and its raw files are parsed and written
CachedArchivesExtractedAndMaterialized ==
    (/\ top = "synchronize"
     /\ calls > 0
     /\ pc = "idle"
     /\ EveryOperationSucceeded
     /\ EveryPageHasLink
     /\ CachedNotDiscovered # {}) =>
        \A p \in CachedNotDiscovered :
            /\ ExtractedInCall(p)
            /\ \A k \in 1..Len(FilesAtCall[p].body) :
                   MaterializedInCall(FilesAtCall[p].body[k])

====
